---- MODULE Spec2Model ----
(***************************************************************************)
(* Model of github.com/mitranim/oas: the reflection-driven traversal that  *)
(* turns a Go type into an OpenAPI schema and registers named components   *)
(* in Doc.Comps.Schemas.                                                   *)
(*                                                                         *)
(* A Go type is a row of TypeTab (what reflect.Type answers for it).  A    *)
(* goroutine calling Doc.TypeSchema is a process with an explicit call     *)
(* stack; every access to the shared registry map is one step.             *)
(***************************************************************************)
EXTENDS Integers, Sequences, FiniteSets, TLC

VARIABLES
  schemas,   \* Doc.Comps.Schemas: component name -> Schema
  stack,     \* per goroutine: the frames of the running traversal, innermost last
  status,    \* per goroutine: "idle", "running", "panicking", "overflow", "fatal"
  err,       \* per goroutine: the value of the panic being unwound, or ""
  cur,       \* per goroutine: the top-level call in progress (type, registry at its start)
  ret,       \* per goroutine: the schema the last returning frame handed to its caller
  ncalls,    \* number of top-level calls started on the document
  lock,      \* the goroutines holding the caller-side mutex: none or one
  reserved,  \* ghost: for every name, the goroutines whose setSchema reserved it, in order
  hist,      \* ghost: the finished top-level calls, in the order they finished
  paths,     \* Doc.Paths: path -> Path, a Path being method slot -> Op
  wit,       \* the value handed to nonZero: its type, what it holds, and the outcome
  built      \* a Schema the caller builds with TypeAdd and Nullable, and the last call

vars == <<schemas, stack, status, err, ret, cur, ncalls, lock, reserved, hist, paths, wit, built>>

----------------------------------------------------------------------------
(* Bounds of the model. *)

\* Top-level TypeSchema calls made on one document.
MaxCalls == 2

\* Frames a goroutine's stack may hold before the runtime's stack limit is hit.
\* Every traversal of TypeTab that returns or panics needs fewer frames (see
\* DeepStacksRepeat), so only unbounded recursion reaches the limit.
StackCap == 12

----------------------------------------------------------------------------
(* Program constants: src/oas.go:25-31 and 42-50. *)

\* Faulty variant of TypeNull: the tag misspelt.
TypeNullMisspelt == "nil"

TypeNull == "null"
TypeInt  == "integer"
TypeNum  == "number"
TypeStr  == "string"
TypeBool == "boolean"
TypeObj  == "object"
TypeArr  == "array"

FormatInt32    == "int32"
FormatInt64    == "int64"
FormatFloat32  == "float"
FormatFloat64  == "double"
FormatDateTime == "date-time"
FormatDate     == "date"
FormatTime     == "time"
FormatDuration == "duration"
FormatUuid     == "uuid"

\* The one addressing scheme of component references: part_002:18, part_004:80.
RefPrefix == "#/components/schemas/"

\* Panic values (the messages of oas_internal.go:32-65 and of the panics in
\* part_002, part_003, part_004).
ErrUnsupported   == "unsupported-kind"
ErrMapKey        == "unsupported-map-key"
ErrRedundant     == "redundant-component"
ErrMissingTitle  == "missing-title"
ErrDoubleRef     == "double-reference"
ErrRefPath       == "unknown-reference-path"
ErrMissingComp   == "missing-component"
ErrAlreadyRef    == "already-a-reference"
ErrNullarizeRef  == "nullarize-reference"
ErrAnonStruct    == "anonymous-struct"

----------------------------------------------------------------------------
(* Schema: the fields of the struct that the traversal reads or writes.    *)
(* Optional Schema pointers are sequences of length 0 or 1; Props is a     *)
(* function from property name to Schema (nil and empty map are the same   *)
(* value here).                                                            *)

Schema0 ==
  [Ref |-> "", Title |-> "", Type |-> <<>>, Format |-> "", OneOf |-> <<>>,
   Items |-> <<>>, Props |-> <<>>, AddProps |-> <<>>, MinItems |-> 0, MaxItems |-> 0]

\* (Schema).Opt: a pointer to a copy of the schema.
Opt(sch) == <<sch>>

stringsContain(vals, exp) == \E i \in 1..Len(vals) : vals[i] = exp

stringsEq(one, two) ==
  /\ Len(one) = Len(two)
  /\ \A i \in 1..Len(one) : one[i] = two[i]

TypeHas(sch, exp) == stringsContain(sch.Type, exp)

TypeIs(sch, exp) == stringsEq(sch.Type, exp)

RECURSIVE IsNullable(_)
IsNullable(sch) ==
  \/ TypeHas(sch, TypeNull)
  \/ \E i \in 1..Len(sch.OneOf) : IsNullable(sch.OneOf[i])

\* Faulty variant of typeAdd: a plain append.
typeAddAppend(sch, val) == [sch EXCEPT !.Type = Append(@, val)]

\* Schema.typeAdd: append, keeping null last; a tag already present is left alone.
typeAdd(sch, val) ==
  IF TypeHas(sch, val) THEN sch
  ELSE LET types == sch.Type IN
       IF Len(types) > 0 /\ types[Len(types)] = TypeNull
       THEN [sch EXCEPT !.Type = SubSeq(types, 1, Len(types) - 1) \o <<val, TypeNull>>]
       ELSE [sch EXCEPT !.Type = Append(types, val)]

TypeAdd(sch, val) == typeAdd(sch, val)

\* Schema.Nullable panics on a reference; NullableErr is that panic, Nullable the result otherwise.
NullableErr(sch) == IF sch.Ref # "" THEN ErrNullarizeRef ELSE ""

\* Faulty variant of Nullable: null is appended without looking at the type set.
NullableAgain(sch) == [sch EXCEPT !.Type = Append(@, TypeNull)]

Nullable(sch) == IF IsNullable(sch) THEN sch ELSE TypeAdd(sch, TypeNull)

\* path.Join(`#/components/schemas`, name): no name of TypeTab holds a slash or a
\* dot segment, so cleaning the joined path changes nothing.
\* Faulty variant of RefSchema: the bare name, without the path of the
\* components.
RefSchemaBare(name) == [Schema0 EXCEPT !.Ref = name]

RefSchema(name) == [Schema0 EXCEPT !.Ref = RefPrefix \o name]

\* Faulty variant of NullSchema: the null alternative comes first.
NullSchemaSwapped(name, inner) ==
  [Schema0 EXCEPT !.Title = name, !.OneOf = <<[Schema0 EXCEPT !.Type = <<TypeNull>>], inner>>]

NullSchema(name, inner) ==
  [Schema0 EXCEPT !.Title = name, !.OneOf = <<inner, [Schema0 EXCEPT !.Type = <<TypeNull>>]>>]

\* Schema.setRef: the panic it raises, or "".
setRefErr(sch, val) ==
  IF val = "" THEN ErrMissingTitle
  ELSE IF sch.Ref # "" THEN ErrAlreadyRef
  ELSE ""

\* Faulty variant of setRef: assigns the Ref field instead of replacing the
\* schema, so the title set by the caller survives.
setRefKeepTitle(sch, val) == [RefSchema(val) EXCEPT !.Title = sch.Title]

setRef(sch, val) == RefSchema(val)

\* (Schema).ValidTitle: the panic it raises, or "".
ValidTitleErr(sch) == IF sch.Title = "" THEN ErrMissingTitle ELSE ""

ValidTitle(sch) == sch.Title

\* (Schemas).Init()[name] = sch on the map vals: the registry, or the Props of
\* a schema.
SchemasPut(vals, name, sch) ==
  [n \in (DOMAIN vals) \cup {name} |-> IF n = name THEN sch ELSE vals[n]]

----------------------------------------------------------------------------
(* Go types, as reflect describes them.  A row answers Kind, Elem, Key,     *)
(* Len, Field(i), Name() # "", and which marshaler interfaces the method    *)
(* set of the type (Json, Text: "val" for a value receiver, "ptr" for a     *)
(* pointer receiver) provides, with what the method returns for the zero   *)
(* value and for the value that nonZero makes of it.                       *)

Chars(out) == [err |-> FALSE, out |-> out]

NoOut == [err |-> TRUE, out |-> <<>>]

Ty0 ==
  [Kind |-> "Invalid", Elem |-> "", Key |-> "", Len |-> 0, Fields |-> <<>>, Named |-> FALSE,
   Json |-> "none", Text |-> "none", JsonZero |-> NoOut, JsonNonZero |-> NoOut,
   TextZero |-> NoOut, TextNonZero |-> NoOut]

Prim(kind) == [Ty0 EXCEPT !.Kind = kind]

PtrTo(elem) == [Ty0 EXCEPT !.Kind = "Ptr", !.Elem = elem]

SliceOf(elem) == [Ty0 EXCEPT !.Kind = "Slice", !.Elem = elem]

ArrayOf(len, elem) == [Ty0 EXCEPT !.Kind = "Array", !.Elem = elem, !.Len = len]

MapOf(key, elem) == [Ty0 EXCEPT !.Kind = "Map", !.Key = key, !.Elem = elem]

StructOf(fields) == [Ty0 EXCEPT !.Kind = "Struct", !.Fields = fields, !.Named = TRUE]

\* reflect.StructField: PkgPath is "" for an exported field; Tag is the value of
\* the json key of the struct tag, as characters.
Field(name, typ, tag) ==
  [Name |-> name, Type |-> typ, PkgPath |-> "", Anonymous |-> FALSE, Tag |-> tag]

Embedded(name, typ) ==
  [Name |-> name, Type |-> typ, PkgPath |-> "", Anonymous |-> TRUE, Tag |-> <<>>]

\* The type of a nil interface value: r.TypeOf(nil).
NilType == "<nil>"

\* The types the callers of TypeSchema use.
DeclaredTypes ==
  [n \in {NilType} |-> Ty0] @@
  ( "string"   :> Prim("String")
 @@ "int"      :> Prim("Int")
 @@ "int32"    :> Prim("Int32")
 @@ "float64"  :> Prim("Float64")
 @@ "bool"     :> Prim("Bool")
 @@ "oas.Str"  :> [Prim("String") EXCEPT !.Named = TRUE]
 @@ "*string"  :> PtrTo("string")
 @@ "**string" :> PtrTo("*string")
 @@ "func()"   :> Prim("Func")
 @@ "[]string"  :> SliceOf("string")
 @@ "*[]string" :> PtrTo("[]string")
 @@ "[]func()"  :> SliceOf("func()")
 @@ "[2]int"    :> ArrayOf(2, "int")
 @@ "map[string]int" :> MapOf("string", "int")
 @@ "map[int]string" :> MapOf("int", "string")
 @@ "map[int]func()" :> MapOf("int", "func()")
 @@ "oas.Unit"  :> StructOf(<<Field("One", "string", <<"o","n","e">>)>>)
 @@ "*oas.Unit" :> PtrTo("oas.Unit")
 @@ "oas.UnitWith" :> StructOf(<<
        Field("Untagged", "int", <<>>),
        Field("One", "string", <<"o","n","e">>),
        [Field("private", "bool", <<"p">>) EXCEPT !.PkgPath = "oas"],
        Field("SkippableFunc", "func()", <<"f">>)>>)
 @@ "oas.Node"  :> StructOf(<<
        Field("Val", "int", <<"v","a","l">>),
        Field("Next", "*oas.Node", <<"n","e","x","t">>)>>)
 @@ "*oas.Node" :> PtrTo("oas.Node")
 @@ "oas.A"     :> StructOf(<<Field("B", "*oas.B", <<"b">>)>>)
 @@ "oas.B"     :> StructOf(<<Field("A", "*oas.A", <<"a">>)>>)
 @@ "*oas.A"    :> PtrTo("oas.A")
 @@ "*oas.B"    :> PtrTo("oas.B")
 @@ "oas.S"     :> [SliceOf("*oas.S") EXCEPT !.Named = TRUE]
 @@ "*oas.S"    :> PtrTo("oas.S")
 \* type SA []*SB; type SB []*SA
 @@ "oas.SA"    :> [SliceOf("*oas.SB") EXCEPT !.Named = TRUE]
 @@ "oas.SB"    :> [SliceOf("*oas.SA") EXCEPT !.Named = TRUE]
 @@ "*oas.SA"   :> PtrTo("oas.SA")
 @@ "*oas.SB"   :> PtrTo("oas.SB")
 \* type MR map[string]R; type R struct{ M *MR `json:"m"` }
 @@ "oas.MR"    :> [MapOf("string", "oas.R") EXCEPT !.Named = TRUE]
 @@ "oas.R"     :> StructOf(<<Field("M", "*oas.MR", <<"m">>)>>)
 @@ "*oas.MR"   :> PtrTo("oas.MR")
 @@ "oas.Outer" :> StructOf(<<
        Embedded("Embed", "oas.Embed"),
        Field("OuterOne", "string", <<"o","u","t">>),
        Field("OuterInner", "*oas.Inner", <<"i","n">>)>>)
 @@ "oas.Embed" :> StructOf(<<Field("EmbedThree", "string", <<"e","3">>)>>)
 @@ "oas.Inner" :> StructOf(<<Field("InnerTwo", "string", <<"i","2">>)>>)
 @@ "*oas.Inner" :> PtrTo("oas.Inner")
 @@ "oas.Loop"  :> StructOf(<<Embedded("Loop", "*oas.Loop")>>)
 @@ "*oas.Loop" :> PtrTo("oas.Loop")
 @@ "oas.Bad"   :> StructOf(<<
        Field("Name", "string", <<"n">>),
        Field("M", "map[int]string", <<"m">>)>>)
 @@ "oas.NullStr" :> [Prim("String") EXCEPT !.Named = TRUE, !.Json = "val",
        !.JsonZero = Chars(<<"n","u","l","l">>),
        !.JsonNonZero = Chars(<<"\"", " ", "\"">>)]
 @@ "*oas.NullStr" :> PtrTo("oas.NullStr")
 @@ "oas.IntStrPtr" :> [Prim("String") EXCEPT !.Named = TRUE, !.Json = "ptr",
        !.JsonZero = Chars(<<"-","1","2","3">>),
        !.JsonNonZero = Chars(<<"-","1","2","3">>)]
 @@ "*oas.IntStrPtr" :> PtrTo("oas.IntStrPtr")
 \* type NonNullStr string, MarshalJSON on the pointer (part_005:25-32)
 @@ "oas.NonNullStr" :> [Prim("String") EXCEPT !.Named = TRUE, !.Json = "ptr",
        !.JsonZero = Chars(<<"\"", "\"">>),
        !.JsonNonZero = Chars(<<"\"", " ", "\"">>)]
 @@ "*oas.NonNullStr" :> PtrTo("oas.NonNullStr")
 \* type IntStr string, MarshalJSON on the value prints -123 (part_005:34-38)
 @@ "oas.IntStr" :> [Prim("String") EXCEPT !.Named = TRUE, !.Json = "val",
        !.JsonZero = Chars(<<"-","1","2","3">>),
        !.JsonNonZero = Chars(<<"-","1","2","3">>)]
 @@ "*oas.IntStr" :> PtrTo("oas.IntStr")
 @@ "uint8"          :> Prim("Uint8")
 @@ "chan int"       :> Prim("Chan")
 @@ "interface {}"   :> Prim("Interface")
 @@ "unsafe.Pointer" :> Prim("UnsafePointer")
 @@ "*func()"        :> PtrTo("func()")
 @@ "map[string]func()" :> MapOf("string", "func()")
 @@ "map[*string]int"   :> MapOf("*string", "int")
 @@ "map[oas.Unit]int"  :> MapOf("oas.Unit", "int")
 @@ "map[oas.Str]int"   :> MapOf("oas.Str", "int")
 @@ "map[oas.Unit]chan int" :> MapOf("oas.Unit", "chan int")
 @@ "map[*string][]func()"  :> MapOf("*string", "[]func()")
 \* type FailArr [2]int, MarshalJSON (value receiver) always returns an error
 @@ "oas.FailArr"  :> [ArrayOf(2, "int") EXCEPT !.Named = TRUE, !.Json = "val"]
 @@ "*oas.FailArr" :> PtrTo("oas.FailArr")
 \* type Vec [2]int, MarshalJSON: null for the zero vector, else the list [1,0]
 @@ "oas.Vec" :> [ArrayOf(2, "int") EXCEPT !.Named = TRUE, !.Json = "val",
        !.JsonZero = Chars(<<"n","u","l","l">>),
        !.JsonNonZero = Chars(<<"[","1",",","0","]">>)]
 \* type Ids []int, MarshalText: the ids joined, "" for none (as net.IP does)
 @@ "oas.Ids" :> [SliceOf("int") EXCEPT !.Named = TRUE, !.Text = "val",
        !.TextZero = Chars(<<>>), !.TextNonZero = Chars(<<"1">>)]
 \* type Set map[string]int, MarshalJSON: null for nil, else the list of its keys
 @@ "oas.Set" :> [MapOf("string", "int") EXCEPT !.Named = TRUE, !.Json = "val",
        !.JsonZero = Chars(<<"n","u","l","l">>),
        !.JsonNonZero = Chars(<<"[","\""," ","\"","]">>)]
 \* type Opt struct{ V int }, MarshalJSON: null when zero, else the object {"v":1}
 @@ "oas.Opt" :> [StructOf(<<Field("V", "int", <<"v">>)>>) EXCEPT !.Json = "val",
        !.JsonZero = Chars(<<"n","u","l","l">>),
        !.JsonNonZero = Chars(<<"{","\"","v","\"",":","1","}">>)]
 \* type Enum int, MarshalJSON: null for 0, an error for a value that is no member
 @@ "oas.Enum" :> [Prim("Int") EXCEPT !.Named = TRUE, !.Json = "val",
        !.JsonZero = Chars(<<"n","u","l","l">>)]
 @@ "*oas.Enum" :> PtrTo("oas.Enum")
 @@ "oas.OuterPtr" :> StructOf(<<
        Embedded("Inner", "*oas.Inner"),
        Field("Own", "int", <<"o","w","n">>)>>)
 @@ "oas.Skip" :> StructOf(<<
        Field("Kept", "string", <<"k","e","p","t">>),
        Field("Hidden", "string", <<"-">>)>>)
 @@ "oas.Skips" :> StructOf(<<
        Field("Fn", "func()", <<"f","n">>),
        Field("Ch", "chan int", <<>>),
        Field("Any", "interface {}", <<"a","n","y">>),
        Field("Raw", "unsafe.Pointer", <<>>),
        Field("Fns", "[]func()", <<"f","n","s">>),
        Field("FnPtr", "*func()", <<>>),
        Field("FnMap", "map[string]func()", <<"m">>),
        [Field("hidden", "map[int]string", <<>>) EXCEPT !.PkgPath = "oas"],
        Field("Kept", "string", <<"k","e","p","t">>)>>)
 \* time.Time: MarshalJSON and MarshalText, RFC 3339
 @@ "time.Time" :> [StructOf(<<[Field("wall", "int", <<>>) EXCEPT !.PkgPath = "time"]>>)
        EXCEPT !.Json = "val", !.Text = "val",
        !.JsonZero = Chars(<<"\"","0","0","0","1","-","0","1","-","0","1","T",
                             "0","0",":","0","0",":","0","0","Z","\"">>),
        !.TextZero = Chars(<<"0","0","0","1","-","0","1","-","0","1","T",
                             "0","0",":","0","0",":","0","0","Z">>)]
 @@ "*time.Time" :> PtrTo("time.Time")
 @@ "oas.Date" :> [Prim("Int") EXCEPT !.Named = TRUE, !.Text = "val",
        !.TextZero = Chars(<<"0","0","0","1","-","0","1","-","0","1">>)]
 @@ "oas.Clock" :> [Prim("Int") EXCEPT !.Named = TRUE, !.Text = "val",
        !.TextZero = Chars(<<"0","0",":","0","0",":","0","0">>)]
 @@ "oas.ClockT" :> [Prim("Int") EXCEPT !.Named = TRUE, !.Text = "val",
        !.TextZero = Chars(<<"T","0","0",":","0","0",":","0","0">>)]
 \* type Uuid [16]byte, MarshalText: 32 hex digits (part_005:95-107)
 @@ "oas.Uuid" :> [ArrayOf(16, "uint8") EXCEPT !.Named = TRUE, !.Text = "val",
        !.TextZero = Chars([i \in 1..32 |-> "0"])]
 \* type NullUuid Uuid (part_005:109-132): MarshalJSON null when zero, else the
 \* quoted digits; MarshalText nothing when zero
 @@ "oas.NullUuid" :> [ArrayOf(16, "uint8") EXCEPT !.Named = TRUE,
        !.Json = "val", !.Text = "val",
        !.JsonZero = Chars(<<"n","u","l","l">>),
        !.JsonNonZero = Chars(<<"\"", "0", "1">> \o [i \in 1..30 |-> "0"] \o <<"\"">>),
        !.TextZero = Chars(<<>>),
        !.TextNonZero = Chars(<<"0", "1">> \o [i \in 1..30 |-> "0"])]
 \* type Guid [16]byte, MarshalText: the canonical hyphenated spelling
 @@ "oas.Guid" :> [ArrayOf(16, "uint8") EXCEPT !.Named = TRUE, !.Text = "val",
        !.TextZero = Chars([i \in 1..36 |-> IF i \in {9, 14, 19, 24} THEN "-" ELSE "0"])]
 \* type Dur int64, MarshalText: an ISO 8601 duration
 @@ "oas.Dur" :> [Prim("Int64") EXCEPT !.Named = TRUE, !.Text = "val",
        !.TextZero = Chars(<<"P","T","0","S">>)]
 \* type BadDate int, MarshalText: a date with month 13
 @@ "oas.BadDate" :> [Prim("Int") EXCEPT !.Named = TRUE, !.Text = "val",
        !.TextZero = Chars(<<"0","0","0","1","-","1","3","-","0","1">>)]
 \* type BadUuid [16]byte, MarshalText: 32 characters, the first not a hex digit
 @@ "oas.BadUuid" :> [ArrayOf(16, "uint8") EXCEPT !.Named = TRUE, !.Text = "val",
        !.TextZero = Chars([i \in 1..32 |-> IF i = 1 THEN "g" ELSE "0"])]
 \* type DurOdd int64, MarshalText: a duration that is not in the list
 @@ "oas.DurOdd" :> [Prim("Int64") EXCEPT !.Named = TRUE, !.Text = "val",
        !.TextZero = Chars(<<"P","T","2","S">>)]
  )

\* The types Test_nonZero (t_bench_test.go:512-590) hands to nonZero are built
\* from primitives, the empty struct, channels and functions by pointers,
\* slices, arrays, maps and structs with visible and hidden fields.  The
\* tables below build the same family: every wrapper of every base type,
\* pointers, slices and arrays of those, and every struct of one or two fields.
WitnessBases == {"int", "bool", "string", "struct {}", "chan int", "func()"}

\* The rows named pre + b for the types b of base, built by Mk.
RowsOf(base, pre, Mk(_)) ==
  [n \in {pre \o b : b \in base} |-> Mk(CHOOSE b \in base : pre \o b = n)]

ArrayOf2(elem) == ArrayOf(2, elem)

ArrayOf0(elem) == ArrayOf(0, elem)

MapFromString(elem) == MapOf("string", elem)

MapToString(key) == MapOf(key, "string")

\* Pointer, slice, array and map types over base.
WrappersOf(base) ==
  RowsOf(base, "*", PtrTo) @@ RowsOf(base, "[]", SliceOf) @@ RowsOf(base, "[2]", ArrayOf2)
  @@ RowsOf(base, "[0]", ArrayOf0) @@ RowsOf(base, "map[string]", MapFromString)
  @@ [n \in {"map[" \o b \o "]string" : b \in base} |->
        MapToString(CHOOSE b \in base : "map[" \o b \o "]string" = n)]

WitnessWrappers == WrappersOf(WitnessBases)

WitnessNested ==
  RowsOf(DOMAIN WitnessWrappers, "*", PtrTo) @@ RowsOf(DOMAIN WitnessWrappers, "[]", SliceOf)
  @@ RowsOf(DOMAIN WitnessWrappers, "[2]", ArrayOf2)

\* The field types of the generated structs.
WitnessFieldTypes == {"int", "struct {}", "*struct {}", "*int", "chan int"}

\* Field number pos of a generated struct: visible (A, B) or hidden (a, b).
WitnessField(pos, typ, public) ==
  [Name |-> IF public THEN <<"A", "B">>[pos] ELSE <<"a", "b">>[pos], Type |-> typ,
   PkgPath |-> IF public THEN "" ELSE "oas", Anonymous |-> FALSE, Tag |-> <<>>]

WitnessFields(pos) ==
  {WitnessField(pos, typ, public) : typ \in WitnessFieldTypes, public \in BOOLEAN}

\* The field lists of the generated structs, and the name reflect prints.
WitnessFieldLists ==
  {<<f>> : f \in WitnessFields(1)} \cup
  {<<f, g>> : f \in WitnessFields(1), g \in WitnessFields(2)}

StructName(fields) ==
  IF Len(fields) = 1
  THEN "struct { " \o fields[1].Name \o " " \o fields[1].Type \o " }"
  ELSE "struct { " \o fields[1].Name \o " " \o fields[1].Type \o "; "
         \o fields[2].Name \o " " \o fields[2].Type \o " }"

WitnessStructs ==
  [n \in {StructName(fs) : fs \in WitnessFieldLists} |->
     [StructOf(CHOOSE fs \in WitnessFieldLists : StructName(fs) = n) EXCEPT !.Named = FALSE]]

WitnessTab ==
  ("struct {}" :> [StructOf(<<>>) EXCEPT !.Named = FALSE])
  @@ WitnessWrappers @@ WitnessNested @@ WitnessStructs

\* reflect.Type as the program sees it: kind, element, key, length, fields,
\* and the encoding methods with what they print.
TypeTab == DeclaredTypes @@ WitnessTab

\* The types handed to nonZero.
WitnessTypes == WitnessBases \cup DOMAIN WitnessTab

Types == DOMAIN DeclaredTypes

Kind(typ) == TypeTab[typ].Kind

Elem(typ) == TypeTab[typ].Elem

\* typeName: reflect's String() of the type; a struct without a name panics.
typeNameErr(typ) ==
  IF typ # NilType /\ Kind(typ) = "Struct" /\ ~TypeTab[typ].Named THEN ErrAnonStruct ELSE ""

typeName(typ) == IF typ = NilType THEN "" ELSE typ

\* Faulty variant of typeDeref: no pointer layer is removed.
typeDerefNone(typ) == typ

RECURSIVE typeDeref(_)
typeDeref(typ) ==
  IF typ # NilType /\ Kind(typ) = "Ptr" THEN typeDeref(Elem(typ)) ELSE typ

\* Faulty variant of isTypeSkippable: it does not look inside arrays, slices,
\* maps and pointers.
isTypeSkippableShallow(typ) ==
  typ = NilType \/ Kind(typ) \in {"Chan", "Func", "Interface", "UnsafePointer"}

\* Faulty variant of isTypeSkippable: only the missing type is skipped.
isTypeSkippableNilOnly(typ) == typ = NilType

RECURSIVE isTypeSkippable(_)
isTypeSkippable(typ) ==
  IF typ = NilType THEN TRUE
  ELSE IF Kind(typ) \in {"Chan", "Func", "Interface", "UnsafePointer"} THEN TRUE
  ELSE IF Kind(typ) \in {"Array", "Slice", "Map", "Ptr"} THEN isTypeSkippable(Elem(typ))
  ELSE FALSE

isPublic(pkgPath) == pkgPath = ""

\* strings.IndexRune(tag, ','): 0-based index of the first comma, or -1.
IndexComma(tag) ==
  IF \E i \in 1..Len(tag) : tag[i] = ","
  THEN (CHOOSE i \in 1..Len(tag) : tag[i] = "," /\ \A j \in 1..(i - 1) : tag[j] # ",") - 1
  ELSE -1

RECURSIVE Str(_)
Str(chars) == IF chars = <<>> THEN "" ELSE Head(chars) \o Str(Tail(chars))

tagIdent(tag) ==
  LET index == IndexComma(tag)
      cut == IF index >= 0 THEN SubSeq(tag, 1, index) ELSE tag
  IN IF cut = <<"-">> THEN "" ELSE Str(cut)

jsonName(field) == tagIdent(field.Tag)

----------------------------------------------------------------------------
(* Text helpers of the behavioural classifier.  Encoder output is a         *)
(* sequence of one-character strings.                                      *)

IsSpace(c) == c \in {" ", "\t", "\n", "\r"}

RECURSIVE TrimLeft(_)
TrimLeft(val) == IF val # <<>> /\ IsSpace(Head(val)) THEN TrimLeft(Tail(val)) ELSE val

RECURSIVE TrimRight(_)
TrimRight(val) ==
  IF val # <<>> /\ IsSpace(val[Len(val)]) THEN TrimRight(SubSeq(val, 1, Len(val) - 1)) ELSE val

\* strings.TrimSpace
TrimSpace(val) == TrimRight(TrimLeft(val))

DecDigits == <<"0", "1", "2", "3", "4", "5", "6", "7", "8", "9">>

isDecDigit(c) == \E i \in 1..Len(DecDigits) : DecDigits[i] = c

isHexDigit(c) ==
  isDecDigit(c) \/ c \in {"a", "b", "c", "d", "e", "f", "A", "B", "C", "D", "E", "F"}

DigitVal(c) == (CHOOSE i \in 1..Len(DecDigits) : DecDigits[i] = c) - 1

\* strconv.Unquote of a double-quoted literal without escapes; anything else is
\* an error, and unquote then returns its input.
unquote(src) ==
  IF /\ Len(src) >= 2
     /\ src[1] = "\"" /\ src[Len(src)] = "\""
     /\ \A i \in 2..(Len(src) - 1) : src[i] \notin {"\"", "\\", "\n"}
  THEN SubSeq(src, 2, Len(src) - 1)
  ELSE src

\* val has the shape of pat: "d" stands for one decimal digit, any other
\* character of pat for itself.
Shaped(val, pat) ==
  /\ Len(val) = Len(pat)
  /\ \A i \in 1..Len(pat) : IF pat[i] = "d" THEN isDecDigit(val[i]) ELSE val[i] = pat[i]

Num2(val, i) == 10 * DigitVal(val[i]) + DigitVal(val[i + 1])

\* time.Parse of the layout 2006-01-02 (formatDateIso8601): month 1..12 and a
\* day of the month; the length of the month is not modelled beyond 31.
DateOk(val, i) == Num2(val, i + 5) \in 1..12 /\ Num2(val, i + 8) \in 1..31

\* time.Parse of the layout 15:04:05
ClockOk(val, i) ==
  Num2(val, i) \in 0..23 /\ Num2(val, i + 3) \in 0..59 /\ Num2(val, i + 6) \in 0..59

DatePat == <<"d","d","d","d","-","d","d","-","d","d">>

ClockPat == <<"d","d",":","d","d",":","d","d">>

isDateIso8601(val) == Shaped(val, DatePat) /\ DateOk(val, 1)

isTimeIso8601Extended(val) == Shaped(val, ClockPat) /\ ClockOk(val, 1)

isTimeIso8601ExtendedT(val) ==
  /\ Shaped(val, <<"T">> \o ClockPat)
  /\ ClockOk(val, 2)

\* time.Parse(time.RFC3339, val): date, T, clock, then Z or a numeric offset
\* (fractional seconds are not modelled).
isDateTimeRfc3339(val) ==
  \/ /\ Shaped(val, DatePat \o <<"T">> \o ClockPat \o <<"Z">>)
     /\ DateOk(val, 1) /\ ClockOk(val, 12)
  \/ /\ Len(val) = 25
     /\ Shaped(SubSeq(val, 1, 19), DatePat \o <<"T">> \o ClockPat)
     /\ val[20] \in {"+", "-"}
     /\ Shaped(SubSeq(val, 21, 25), <<"d","d",":","d","d">>)
     /\ DateOk(val, 1) /\ ClockOk(val, 12)
     /\ Num2(val, 21) \in 0..23 /\ Num2(val, 24) \in 0..59

uuidCanonHyphens == {9, 14, 19, 24}

isUuidCanon(val) ==
  /\ Len(val) = 36
  /\ \A i \in 1..36 : IF i \in uuidCanonHyphens THEN val[i] = "-" ELSE isHexDigit(val[i])

isUuidSimple(val) == Len(val) = 32 /\ \A i \in 1..32 : isHexDigit(val[i])

\* Faulty variant of isUuid: only the hyphenated spelling is recognised.
isUuidCanonOnly(val) == isUuidCanon(val)

isUuid(val) == isUuidCanon(val) \/ isUuidSimple(val)

durations ==
  { <<"P">>, <<"P","0">>, <<"P","0","Y">>, <<"P","T","0","S">>,
    <<"P","T","1","S">>, <<"P","1","Y">> }

isDurationIso8601(val) == val \in durations

\* schemaTextInspectFormat after val = strings.TrimSpace(val): the sniffers in
\* their order, the first match decides.
sniffFormat(sch, val) ==
  IF isDateTimeRfc3339(val) THEN [sch EXCEPT !.Format = FormatDateTime]
  ELSE IF isDateIso8601(val) THEN [sch EXCEPT !.Format = FormatDate]
  ELSE IF isTimeIso8601ExtendedT(val) \/ isTimeIso8601Extended(val)
       THEN [sch EXCEPT !.Format = FormatTime]
  ELSE IF isUuid(val) THEN [sch EXCEPT !.Format = FormatUuid]
  ELSE IF isDurationIso8601(val) THEN [sch EXCEPT !.Format = FormatDuration]
  ELSE sch

schemaTextInspectFormat(sch, val) == sniffFormat(sch, TrimSpace(val))

schemaTextInspect(sch, val) == schemaTextInspectFormat(TypeAdd(sch, TypeStr), val)

\* The classifier's operators return the schema as they leave it and the bool
\* they return.
Res(sch, ok) == [sch |-> sch, ok |-> ok]

\* schemaJsonInspect after val = strings.TrimSpace(val).
inspectJson(sch, val) ==
  IF val = <<"n","u","l","l">> THEN Res(Nullable(sch), FALSE)
  ELSE IF val = <<"t","r","u","e">> \/ val = <<"f","a","l","s","e">>
       THEN Res([TypeAdd(sch, TypeBool) EXCEPT !.Format = ""], TRUE)
  ELSE IF Len(val) > 0 /\ val[1] = "\""
       THEN Res(schemaTextInspectFormat(TypeAdd(sch, TypeStr), unquote(val)), TRUE)
  ELSE IF Len(val) > 0 /\ (val[1] = "-" \/ isDecDigit(val[1]))
       THEN Res(IF \E i \in 1..Len(val) : val[i] \in {".", "e", "E"}
                THEN [TypeAdd(sch, TypeNum) EXCEPT !.Format = FormatFloat64]
                ELSE TypeAdd(sch, TypeNum), TRUE)
  ELSE Res(sch, FALSE)

schemaJsonInspect(sch, val) == inspectJson(sch, TrimSpace(val))

\* schemaJsonVal / schemaTextVal on the encoder's output `got`.
schemaJsonVal(sch, got) ==
  IF got.err THEN Res(sch, FALSE) ELSE schemaJsonInspect(sch, got.out)

schemaTextVal(sch, got) ==
  IF got.err THEN Res(sch, FALSE) ELSE Res(schemaTextInspect(sch, got.out), TRUE)

----------------------------------------------------------------------------
(* Witness synthesis, as far as the classifier needs it: whether nonZero    *)
(* returns true, returns false, or recurses until the stack limit.         *)

RECURSIVE sizeZero(_)
\* typ.Size() == 0
sizeZero(typ) ==
  CASE Kind(typ) = "Struct" ->
         \A i \in 1..Len(TypeTab[typ].Fields) : sizeZero(TypeTab[typ].Fields[i].Type)
    [] Kind(typ) = "Array" -> TypeTab[typ].Len = 0 \/ sizeZero(Elem(typ))
    [] OTHER -> FALSE

ScalarKinds ==
  {"Int8", "Int16", "Int32", "Int64", "Int", "Uint8", "Uint16", "Uint32", "Uint64", "Uint",
   "Float32", "Float64", "Bool", "String"}

RECURSIVE nonZero(_, _)
RECURSIVE nonZeroFields(_, _, _, _)

\* nonZeroStructPublic (publicOnly) and nonZeroStructAny: the first field, from
\* index ind on, that can be made non-zero decides.
nonZeroFields(typ, ind, publicOnly, fuel) ==
  LET fields == TypeTab[typ].Fields IN
  IF ind > Len(fields) THEN "false"
  ELSE IF publicOnly /\ ~isPublic(fields[ind].PkgPath)
       THEN nonZeroFields(typ, ind + 1, publicOnly, fuel)
  ELSE LET got == nonZero(fields[ind].Type, fuel) IN
       IF got = "false" THEN nonZeroFields(typ, ind + 1, publicOnly, fuel) ELSE got

\* nonZero, nonZeroMap, nonZeroSlice, nonZeroStruct, nonZeroPtr: "true", "false",
\* or "overflow" when the recursion does not end within fuel calls.
nonZero(typ, fuel) ==
  IF fuel = 0 THEN "overflow"
  ELSE IF sizeZero(typ) THEN "false"
  ELSE CASE Kind(typ) \in ScalarKinds -> "true"
         [] Kind(typ) \in {"Array", "Slice", "Ptr"} -> nonZero(Elem(typ), fuel - 1)
         [] Kind(typ) = "Map" ->
              LET key == nonZero(TypeTab[typ].Key, fuel - 1) IN
              IF key = "true" THEN nonZero(Elem(typ), fuel - 1) ELSE key
         [] Kind(typ) = "Struct" ->
              LET pub == nonZeroFields(typ, 1, TRUE, fuel - 1) IN
              IF pub = "false" THEN nonZeroFields(typ, 1, FALSE, fuel - 1) ELSE pub
         [] OTHER -> "false"

----------------------------------------------------------------------------
(* nonZero on values.  A value is 0 or 1 for a number, FALSE or TRUE for a  *)
(* boolean, a string for a string; the sequence of its elements for an     *)
(* array or a slice, of its fields for a struct, of its entries <<key,     *)
(* elem>> for a map; <<>> for a nil pointer and <<v>> for a pointer to v;  *)
(* <<>> for a nil channel, function or interface.  nonZero changes the     *)
(* value it is given in place: Made is what it returns and the value as    *)
(* it is afterwards.                                                       *)

Made(ok, val) == [ok |-> ok, val |-> val]

\* r.New(typ).Elem(): the zero value of the type.
RECURSIVE Zero(_)
Zero(typ) ==
  CASE Kind(typ) = "Bool" -> FALSE
    [] Kind(typ) = "String" -> ""
    [] Kind(typ) \in ScalarKinds \ {"Bool", "String"} -> 0
    [] Kind(typ) = "Array" -> [i \in 1..TypeTab[typ].Len |-> Zero(Elem(typ))]
    [] Kind(typ) = "Struct" ->
         [i \in 1..Len(TypeTab[typ].Fields) |-> Zero(TypeTab[typ].Fields[i].Type)]
    [] OTHER -> <<>>

\* val.SetInt(1), val.SetUint(1), val.SetFloat(1), val.SetBool(true),
\* val.SetString(` `)
nonZeroScalar(typ) ==
  CASE Kind(typ) = "Bool" -> TRUE
    [] Kind(typ) = "String" -> " "
    [] OTHER -> 1

RECURSIVE nonZeroVal(_, _)
RECURSIVE nonZeroStructPublic(_, _, _)
RECURSIVE nonZeroStructAny(_, _, _)

\* nonZeroMap after nonZero(key): elem is made only if the key was.
nonZeroMapKeyed(typ, val, key) ==
  IF ~key.ok THEN Made(FALSE, val)
  ELSE IF ~nonZeroVal(Elem(typ), Zero(Elem(typ))).ok THEN Made(FALSE, val)
  ELSE Made(TRUE, << <<key.val, nonZeroVal(Elem(typ), Zero(Elem(typ))).val>> >>)

nonZeroMap(typ, val) ==
  nonZeroMapKeyed(typ, val, nonZeroVal(TypeTab[typ].Key, Zero(TypeTab[typ].Key)))

\* nonZeroSlice after nonZero(elem) ended as elem.
nonZeroSliceWith(val, elem) ==
  IF elem.ok THEN Made(TRUE, Append(val, elem.val)) ELSE Made(FALSE, val)

nonZeroSlice(typ, val) == nonZeroSliceWith(val, nonZeroVal(Elem(typ), Zero(Elem(typ))))

\* nonZeroPtr: a nil pointer is set to a new referent before the referent is
\* tried.
nonZeroPtrTo(tar) == Made(tar.ok, <<tar.val>>)

nonZeroPtr(typ, val) ==
  nonZeroPtrTo(nonZeroVal(Elem(typ), IF val = <<>> THEN Zero(Elem(typ)) ELSE val[1]))

\* case r.Array: return nonZero(val.Index(0))
nonZeroIndex0(val, first) == Made(first.ok, [val EXCEPT ![1] = first.val])

\* nonZeroStructPublic from field ind on, nonZero(val.Field(ind)) having ended
\* as got.
nonZeroPublicWith(typ, val, ind, got) ==
  IF got.ok THEN Made(TRUE, [val EXCEPT ![ind] = got.val])
  ELSE nonZeroStructPublic(typ, [val EXCEPT ![ind] = got.val], ind + 1)

nonZeroStructPublic(typ, val, ind) ==
  IF ind > Len(TypeTab[typ].Fields) THEN Made(FALSE, val)
  ELSE IF ~isPublic(TypeTab[typ].Fields[ind].PkgPath)
       THEN nonZeroStructPublic(typ, val, ind + 1)
  ELSE nonZeroPublicWith(typ, val, ind, nonZeroVal(TypeTab[typ].Fields[ind].Type, val[ind]))

\* nonZeroStructAny from field ind on, nonZero of a new value of the field's
\* type having ended as got: memcpy over the field if it was made.
nonZeroAnyWith(typ, val, ind, got) ==
  IF got.ok THEN Made(TRUE, [val EXCEPT ![ind] = got.val])
  ELSE nonZeroStructAny(typ, val, ind + 1)

nonZeroStructAny(typ, val, ind) ==
  IF ind > Len(TypeTab[typ].Fields) THEN Made(FALSE, val)
  ELSE nonZeroAnyWith(typ, val, ind,
                      nonZeroVal(TypeTab[typ].Fields[ind].Type,
                                 Zero(TypeTab[typ].Fields[ind].Type)))

\* nonZeroStructPublic(val) || nonZeroStructAny(val)
nonZeroStructAfter(typ, pub) == IF pub.ok THEN pub ELSE nonZeroStructAny(typ, pub.val, 1)

\* Faulty variant of nonZeroStruct: one pass over all fields, visible or not.
nonZeroStructOnePass(typ, val) == nonZeroStructAny(typ, val, 1)

nonZeroStruct(typ, val) == nonZeroStructAfter(typ, nonZeroStructPublic(typ, val, 1))

\* nonZero(val) for a value of type typ.
nonZeroVal(typ, val) ==
  IF sizeZero(typ) THEN Made(FALSE, val)
  ELSE CASE Kind(typ) \in ScalarKinds -> Made(TRUE, nonZeroScalar(typ))
         [] Kind(typ) = "Array" -> nonZeroIndex0(val, nonZeroVal(Elem(typ), val[1]))
         [] Kind(typ) = "Map" -> nonZeroMap(typ, val)
         [] Kind(typ) = "Slice" -> nonZeroSlice(typ, val)
         [] Kind(typ) = "Struct" -> nonZeroStruct(typ, val)
         [] Kind(typ) = "Ptr" -> nonZeroPtr(typ, val)
         [] OTHER -> Made(FALSE, val)

----------------------------------------------------------------------------
(* schemaIfaces: the behavioural classifier.                               *)

\* typ.Implements(ifaceJsonMarshaler) / (ifaceTextMarshaler): the method set of
\* a pointer type holds the methods of both receivers, that of a pointer to a
\* pointer is empty.
ImplementsJson(typ) ==
  IF Kind(typ) = "Ptr"
  THEN Kind(Elem(typ)) # "Ptr" /\ TypeTab[Elem(typ)].Json \in {"val", "ptr"}
  ELSE TypeTab[typ].Json = "val"

ImplementsText(typ) ==
  IF Kind(typ) = "Ptr"
  THEN Kind(Elem(typ)) # "Ptr" /\ TypeTab[Elem(typ)].Text \in {"val", "ptr"}
  ELSE TypeTab[typ].Text = "val"

\* Faulty variant of stripPtrs: the pointer layers are removed without marking
\* the schema.
stripPtrsUnmarked(sch, typ) == [sch |-> sch, typ |-> typeDeref(typ)]

RECURSIVE stripPtrs(_, _)
\* for typ.Kind() == r.Ptr { sch.TypeAdd(TypeNull); typ = typ.Elem() }
stripPtrs(sch, typ) ==
  IF Kind(typ) = "Ptr" THEN stripPtrs(TypeAdd(sch, TypeNull), Elem(typ))
  ELSE [sch |-> sch, typ |-> typ]

\* The classifier's result: the schema as left, the bool returned, and
\* over = TRUE when nonZero never returns.
Probed(sch, ok, over) == [sch |-> sch, ok |-> ok, over |-> over]

\* nonZero(val.Elem()) && self.schemaJsonVal(sch, val), with what nonZero did.
retryJson(sch, typ, made) ==
  IF made = "overflow" THEN Probed(sch, FALSE, TRUE)
  ELSE IF made = "false" THEN Probed(sch, FALSE, FALSE)
  ELSE Probed(schemaJsonVal(sch, TypeTab[typ].JsonNonZero).sch,
              schemaJsonVal(sch, TypeTab[typ].JsonNonZero).ok, FALSE)

\* schemaIfaceJson after the pointer layers: the probe of the zero value (first),
\* then of the witness.
probeJson(typ, first) ==
  IF first.ok THEN Probed(first.sch, TRUE, FALSE)
  ELSE retryJson(first.sch, typ, nonZero(typ, StackCap))

probeJsonOf(st) ==
  probeJson(typeDeref(st.typ), schemaJsonVal(st.sch, TypeTab[typeDeref(st.typ)].JsonZero))

schemaIfaceJson(sch, typ) == probeJsonOf(stripPtrs(sch, typ))

\* nonZero(val.Elem()) && self.schemaTextVal(sch, val)
retryText(sch, typ, made) ==
  IF made = "overflow" THEN Probed(sch, FALSE, TRUE)
  ELSE IF made = "false" THEN Probed(sch, FALSE, FALSE)
  ELSE Probed(schemaTextVal(sch, TypeTab[typ].TextNonZero).sch,
              schemaTextVal(sch, TypeTab[typ].TextNonZero).ok, FALSE)

\* schemaIfaceText after the pointer layers.
probeText(typ, first) ==
  IF first.ok \/ sizeZero(typ) THEN Probed(first.sch, TRUE, FALSE)
  ELSE retryText(first.sch, typ, nonZero(typ, StackCap))

probeTextOf(st) == probeText(st.typ, schemaTextVal(st.sch, TypeTab[st.typ].TextZero))

schemaIfaceText(sch, typ) == probeTextOf(stripPtrs(sch, typ))

schemaIfaces(sch, typ) ==
  IF ImplementsJson(typ) THEN schemaIfaceJson(sch, typ)
  ELSE IF ImplementsText(typ) THEN schemaIfaceText(sch, typ)
  ELSE Probed(sch, FALSE, FALSE)

----------------------------------------------------------------------------
(* The registry: Doc.Comps.Schemas.                                        *)

\* Faulty variant of GotCompSchema: an empty placeholder counts as missing.
GotCompSchemaFilled(name) ==
  LET ok  == name \in DOMAIN schemas /\ schemas[name] # Schema0
      val == IF ok THEN schemas[name] ELSE Schema0
  IN [val |-> val, ok |-> ok, err |-> IF val.Ref # "" THEN ErrDoubleRef ELSE ""]

\* Faulty variant of GotCompSchema: looks the name up in a map that is never
\* written, so nothing is found.
GotCompSchemaNever(name) == [val |-> Schema0, ok |-> FALSE, err |-> ""]

\* (Doc).GotCompSchema: the body, whether the key exists, and the panic raised
\* when the body is itself a reference.
GotCompSchema(name) ==
  LET ok  == name \in DOMAIN schemas
      val == IF ok THEN schemas[name] ELSE Schema0
  IN [val |-> val, ok |-> ok, err |-> IF val.Ref # "" THEN ErrDoubleRef ELSE ""]

\* unprefix(refPath, `#/components/schemas/`): the name that follows the prefix.
unprefix(refPath) ==
  IF \E n \in Types : RefPrefix \o n = refPath
  THEN [name |-> CHOOSE n \in Types : RefPrefix \o n = refPath, ok |-> TRUE]
  ELSE [name |-> refPath, ok |-> FALSE]

\* (Doc).GotSchema
GotSchema(refPath) ==
  LET cut == unprefix(refPath) IN
  IF cut.ok THEN GotCompSchema(cut.name)
  ELSE [val |-> Schema0, ok |-> FALSE, err |-> ErrRefPath]

\* (Doc).setSchema: the panic it raises, or "".
setSchemaErr(name) ==
  IF name = "" THEN ErrMissingTitle
  ELSE IF name \in DOMAIN schemas THEN ErrRedundant
  ELSE ""

\* Faulty variant of setSchema: the placeholder is not inserted; the name is
\* first written by the deferred outlineSchema.
setSchemaDeferred(name, sch) == schemas

setSchema(name, sch) == SchemasPut(schemas, name, sch)

\* Faulty variant of addSchema: makes a new map holding only this schema.
addSchemaAlone(sch) == [n \in {ValidTitle(sch)} |-> sch]

\* (Doc).addSchema
addSchema(sch) == SchemasPut(schemas, ValidTitle(sch), sch)

----------------------------------------------------------------------------
(* Frames.  An "any" frame is one activation of schemaAny together with the *)
(* kind-specific method it dispatches to; a "props" frame is one activation *)
(* of schemaStructProps.  byRef: the frame works on its caller's *Schema.    *)
(* pc: where the activation continues.                                     *)

AnyFrame(typ, sch, byRef) ==
  [fn |-> "any", typ |-> typ, sch |-> sch, pc |-> "lookup", byRef |-> byRef,
   idx |-> 0, prop |-> ""]

PropsFrame(typ, sch) ==
  [fn |-> "props", typ |-> typ, sch |-> sch, pc |-> "field", byRef |-> TRUE,
   idx |-> 1, prop |-> ""]

\* The pcs of an "any" frame at which its deferred outlineSchema is pending.
Armed == {"items", "key", "addprops", "fill"}

Procs == DOMAIN stack

Top(p) == stack[p][Len(stack[p])]

Running(p, fn, pc) ==
  /\ status[p] = "running"
  /\ stack[p] # <<>>
  /\ Top(p).fn = fn
  /\ Top(p).pc = pc

CallRec(p, ok, e, val, after) ==
  [n |-> cur[p].n, proc |-> p, typ |-> cur[p].typ, ok |-> ok, err |-> e, ret |-> val,
   before |-> cur[p].before, after |-> after]

\* The frame on top returns val: it is popped; a byRef frame has written val
\* through the caller's pointer.  When it was the last frame, the top-level
\* call returns val.
DoReturn(p, val, after) ==
  LET rest == SubSeq(stack[p], 1, Len(stack[p]) - 1)
      back == IF rest # <<>> /\ Top(p).byRef
              THEN [rest EXCEPT ![Len(rest)].sch = val]
              ELSE rest
  IN /\ stack' = [stack EXCEPT ![p] = back]
     /\ ret' = [ret EXCEPT ![p] = IF rest = <<>> THEN Schema0 ELSE val]
     /\ status' = [status EXCEPT ![p] = IF rest = <<>> THEN "idle" ELSE "running"]
     /\ hist' = IF rest = <<>> THEN Append(hist, CallRec(p, TRUE, "", val, after)) ELSE hist
     /\ UNCHANGED err

\* The frame on top, left as f, panics with e.
DoPanic(p, f, e) ==
  /\ stack' = [stack EXCEPT ![p] = [@ EXCEPT ![Len(@)] = f]]
  /\ status' = [status EXCEPT ![p] = "panicking"]
  /\ err' = [err EXCEPT ![p] = e]
  /\ ret' = [ret EXCEPT ![p] = Schema0]
  /\ UNCHANGED hist

\* The frame on top continues as f.
DoStay(p, f) ==
  /\ stack' = [stack EXCEPT ![p] = [@ EXCEPT ![Len(@)] = f]]
  /\ ret' = [ret EXCEPT ![p] = Schema0]
  /\ UNCHANGED <<status, err, hist>>

\* The frame on top, left as f, calls child.  A goroutine whose stack is at the
\* limit dies of stack overflow.
DoPush(p, f, child) ==
  IF Len(stack[p]) >= StackCap
  THEN /\ status' = [status EXCEPT ![p] = "overflow"]
       /\ UNCHANGED <<stack, err, ret, hist>>
  ELSE /\ stack' = [stack EXCEPT ![p] = Append([@ EXCEPT ![Len(@)] = f], child)]
       /\ ret' = [ret EXCEPT ![p] = Schema0]
       /\ UNCHANGED <<status, err, hist>>

----------------------------------------------------------------------------
(* schemaAny and the methods it dispatches to.                            *)

schemaNone(sch) == Nullable(sch)

schemaInt(sch) == [sch EXCEPT !.Type = <<TypeInt>>]

\* Faulty variant of schemaFloat: the integer tag.
schemaFloatAsInt(sch) == [sch EXCEPT !.Type = <<TypeInt>>]

schemaFloat(sch) == [sch EXCEPT !.Type = <<TypeNum>>]

schemaBool(sch) == [sch EXCEPT !.Type = <<TypeBool>>]

schemaString(sch) == [sch EXCEPT !.Type = <<TypeStr>>]

\* schemaCommon, schemaTitle
schemaTitle(sch, typ) ==
  IF typeName(typ) # "" THEN [sch EXCEPT !.Title = typeName(typ)] ELSE sch

schemaCommon(sch, typ) == schemaTitle(sch, typ)

\* The scalar cases of the switch of schemaAny.
schemaScalar(sch, kind) ==
  CASE kind \in {"Int32", "Uint32"} -> schemaInt([sch EXCEPT !.Format = FormatInt32])
    [] kind \in {"Int64", "Uint64"} -> schemaInt([sch EXCEPT !.Format = FormatInt64])
    [] kind \in {"Int8", "Int16", "Int", "Uint8", "Uint16", "Uint"} -> schemaInt(sch)
    [] kind = "Float32" -> schemaFloat([sch EXCEPT !.Format = FormatFloat32])
    [] kind = "Float64" -> schemaFloat([sch EXCEPT !.Format = FormatFloat64])
    [] kind = "Bool" -> schemaBool(sch)
    [] kind = "String" -> schemaString(sch)

\* The switch of schemaAny on typ.Kind(), on the schema sch the classifier left.
Switch(p, f, typ, sch) ==
  IF Kind(typ) \in ScalarKinds THEN DoReturn(p, schemaScalar(sch, Kind(typ)), schemas)
  ELSE IF Kind(typ) = "Ptr"
       THEN DoPush(p, [f EXCEPT !.sch = sch, !.pc = "ptr_after"],
                   AnyFrame(Elem(typ), sch, TRUE))
  ELSE IF Kind(typ) \in {"Array", "Slice", "Map", "Struct"}
       THEN DoStay(p, [f EXCEPT !.sch = sch, !.pc = "reserve"])
  ELSE DoPanic(p, [f EXCEPT !.sch = sch], ErrUnsupported)

\* schemaAny after schemaIfaces returned ifc.
Classified(p, f, ifc) ==
  IF ifc.over
  THEN /\ status' = [status EXCEPT ![p] = "overflow"]
       /\ UNCHANGED <<stack, err, ret, hist>>
  ELSE IF ifc.ok THEN DoReturn(p, ifc.sch, schemas)
  ELSE Switch(p, f, f.typ, ifc.sch)

\* schemaAny after the registry lookup missed: title, classifier, switch.
Dispatch(p, f) == Classified(p, f, schemaIfaces(schemaCommon(f.sch, f.typ), f.typ))

\* schemaAny up to its switch: the nil type, the registry lookup under the
\* type's name (one read of the map), the reference on a hit.
Lookup(p) ==
  /\ Running(p, "any", "lookup")
  /\ LET f == Top(p)
         name == typeName(f.typ)
         got == GotCompSchema(name)
     IN IF f.typ = NilType
        THEN IF NullableErr(f.sch) # "" THEN DoPanic(p, f, NullableErr(f.sch))
             ELSE DoReturn(p, schemaNone(f.sch), schemas)
        ELSE IF typeNameErr(f.typ) # "" THEN DoPanic(p, f, typeNameErr(f.typ))
        ELSE IF got.err # "" THEN DoPanic(p, f, got.err)
        ELSE IF got.ok
             THEN IF setRefErr(f.sch, name) # "" THEN DoPanic(p, f, setRefErr(f.sch, name))
                  ELSE DoReturn(p, setRef(f.sch, name), schemas)
        ELSE Dispatch(p, f)
  /\ UNCHANGED <<schemas, reserved, cur, ncalls, lock, paths, wit, built>>

\* The first statements of schemaArray, schemaSlice, schemaMap, schemaStruct:
\* the operand of defer, setSchema(name, Schema{}), runs at once (one
\* check-and-insert on the map); then the method's own assignments, up to its
\* first call of TypeSchema.
Reserve(p) ==
  /\ Running(p, "any", "reserve")
  /\ LET f    == Top(p)
         typ  == f.typ
         name == typeName(typ)
         sch  == f.sch
     IN IF setSchemaErr(name) # ""
        THEN /\ DoPanic(p, f, setSchemaErr(name))
             /\ UNCHANGED <<schemas, reserved>>
        ELSE /\ schemas' = setSchema(name, Schema0)
             /\ reserved' = [reserved EXCEPT ![name] = Append(@, p)]
             /\ CASE Kind(typ) = "Array" ->
                       DoPush(p, [f EXCEPT !.pc = "items",
                                    !.sch = [sch EXCEPT !.MaxItems = TypeTab[typ].Len,
                                                        !.MinItems = TypeTab[typ].Len]],
                              AnyFrame(Elem(typ), Schema0, FALSE))
                  [] Kind(typ) = "Slice" ->
                       DoPush(p, [f EXCEPT !.pc = "items",
                                    !.sch = [sch EXCEPT !.Type = <<TypeArr, TypeNull>>]],
                              AnyFrame(Elem(typ), Schema0, FALSE))
                  [] Kind(typ) = "Map" ->
                       LET obj == [sch EXCEPT !.Type = <<TypeObj, TypeNull>>] IN
                       IF isTypeSkippable(Elem(typ))
                       THEN DoStay(p, [f EXCEPT !.pc = "fill", !.sch = schemaNone(obj)])
                       ELSE DoPush(p, [f EXCEPT !.pc = "key", !.sch = obj],
                                   AnyFrame(TypeTab[typ].Key, Schema0, FALSE))
                  [] Kind(typ) = "Struct" ->
                       LET obj == [sch EXCEPT !.Type = <<TypeObj>>] IN
                       DoPush(p, [f EXCEPT !.pc = "fill", !.sch = obj], PropsFrame(typ, obj))
  /\ UNCHANGED <<cur, ncalls, lock, paths, wit, built>>

\* sch.Items = self.TypeSchema(typ.Elem()).Opt()
SetItems(p) ==
  /\ Running(p, "any", "items")
  /\ DoStay(p, [Top(p) EXCEPT !.pc = "fill", !.sch.Items = Opt(ret[p])])
  /\ UNCHANGED <<schemas, reserved, cur, ncalls, lock, paths, wit, built>>

\* Faulty variant of validKeyFor: a key schema that merely contains "string"
\* is let through.
validKeyForContains(keySch) == IF TypeHas(keySch, TypeStr) THEN "" ELSE ErrMapKey

\* validKeyFor: the panic it raises, or "".
validKeyFor(keySch) == IF TypeIs(keySch, <<TypeStr>>) THEN "" ELSE ErrMapKey

\* validKeyFor(typ, keyType, self.TypeSchema(keyType)), then the call of
\* TypeSchema(elemType).
CheckKey(p) ==
  /\ Running(p, "any", "key")
  /\ LET f == Top(p) IN
     IF validKeyFor(ret[p]) # "" THEN DoPanic(p, f, validKeyFor(ret[p]))
     ELSE DoPush(p, [f EXCEPT !.pc = "addprops"], AnyFrame(Elem(f.typ), Schema0, FALSE))
  /\ UNCHANGED <<schemas, reserved, cur, ncalls, lock, paths, wit, built>>

\* sch.AddProps = self.TypeSchema(elemType).Opt()
SetAddProps(p) ==
  /\ Running(p, "any", "addprops")
  /\ DoStay(p, [Top(p) EXCEPT !.pc = "fill", !.sch.AddProps = Opt(ret[p])])
  /\ UNCHANGED <<schemas, reserved, cur, ncalls, lock, paths, wit, built>>

\* Faulty variant of outlineSchema: the caller's schema is not turned into the
\* reference.
outlineSchemaNoRef(sch) == [schemas |-> addSchema(sch), sch |-> sch]

\* Faulty variant of outlineSchema: setRef runs first, so the reference is what
\* gets stored.
outlineSchemaRefFirst(sch) ==
  [schemas |-> SchemasPut(schemas, ValidTitle(sch), setRef(sch, ValidTitle(sch))),
   sch |-> setRef(sch, ValidTitle(sch))]

\* (Doc).outlineSchema: addSchema of the schema, then sch.setRef(sch.ValidTitle()).  The
\* registry and the caller's schema as it leaves them.
outlineSchema(sch) ==
  [schemas |-> addSchema(sch), sch |-> setRef(sch, ValidTitle(sch))]

\* The deferred outlineSchema(sch) on the normal path: the method has returned,
\* the body is written over the placeholder, the caller's schema becomes the
\* reference.  For a struct this is reached when schemaStructProps returned.
Fill(p) ==
  /\ Running(p, "any", "fill")
  /\ LET f == Top(p) IN
     IF ValidTitleErr(f.sch) # ""
     THEN /\ DoPanic(p, [f EXCEPT !.pc = "done"], ValidTitleErr(f.sch))
          /\ UNCHANGED schemas
     ELSE /\ schemas' = outlineSchema(f.sch).schemas
          /\ DoReturn(p, outlineSchema(f.sch).sch, schemas')
  /\ UNCHANGED <<reserved, cur, ncalls, lock, paths, wit, built>>

\* schemaPtr after schemaAny(sch, typ.Elem()) returned: an inline referent is
\* made nullable under the pointer's title; a reference is looked up (one read
\* of the map) and wrapped unless its target is nullable.
PtrAfter(p) ==
  /\ Running(p, "any", "ptr_after")
  /\ LET f   == Top(p)
         sch == f.sch
         tar == GotSchema(sch.Ref)
     IN IF sch.Ref = ""
        THEN DoReturn(p, Nullable([sch EXCEPT !.Title = typeName(f.typ)]), schemas)
        ELSE IF tar.err # "" THEN DoPanic(p, f, tar.err)
        ELSE IF ~tar.ok THEN DoPanic(p, f, ErrMissingComp)
        ELSE IF IsNullable(tar.val) THEN DoReturn(p, sch, schemas)
        ELSE DoReturn(p, NullSchema(typeName(f.typ), sch), schemas)
  /\ UNCHANGED <<schemas, reserved, cur, ncalls, lock, paths, wit, built>>

\* One iteration of the loop of schemaStructProps, up to its call of TypeSchema
\* (through schemaStructProp) or of itself; past the last field it returns.
FieldStep(p) ==
  /\ Running(p, "props", "field")
  /\ LET f      == Top(p)
         fields == TypeTab[f.typ].Fields
         field  == fields[f.idx]
         inner  == typeDeref(field.Type)
         skip   == [f EXCEPT !.idx = @ + 1]
     IN IF f.idx > Len(fields) THEN DoReturn(p, f.sch, schemas)
        ELSE IF ~isPublic(field.PkgPath) \/ isTypeSkippable(field.Type) THEN DoStay(p, skip)
        ELSE IF jsonName(field) # ""
             THEN DoPush(p, [f EXCEPT !.pc = "prop", !.prop = jsonName(field)],
                         AnyFrame(field.Type, Schema0, FALSE))
        ELSE IF field.Anonymous /\ Kind(inner) = "Struct"
             THEN DoPush(p, skip, PropsFrame(inner, f.sch))
        ELSE IF field.Name # ""
             THEN DoPush(p, [f EXCEPT !.pc = "prop", !.prop = field.Name],
                         AnyFrame(field.Type, Schema0, FALSE))
        ELSE DoStay(p, skip)
  /\ UNCHANGED <<schemas, reserved, cur, ncalls, lock, paths, wit, built>>

\* schemaStructProp: sch.Props.Init()[name] = self.TypeSchema(typ)
SetProp(p) ==
  /\ Running(p, "props", "prop")
  /\ LET f == Top(p) IN
     DoStay(p, [f EXCEPT !.pc = "field", !.idx = @ + 1,
                         !.sch.Props = SchemasPut(@, f.prop, ret[p])])
  /\ UNCHANGED <<schemas, reserved, cur, ncalls, lock, paths, wit, built>>

\* A panic leaves one frame: a pending deferred outlineSchema runs (the body,
\* as far as it got, is written to the registry); a frame working on its
\* caller's *Schema leaves what it wrote there.  With the last frame gone the
\* panic reaches the caller of TypeSchema.
Unwind(p) ==
  /\ status[p] = "panicking"
  /\ stack[p] # <<>>
  /\ LET f     == Top(p)
         rest  == SubSeq(stack[p], 1, Len(stack[p]) - 1)
         armed == f.fn = "any" /\ f.pc \in Armed
         runs  == armed /\ ValidTitleErr(f.sch) = ""
         left  == IF runs THEN outlineSchema(f.sch).sch ELSE f.sch
         e     == IF armed /\ ~runs THEN ValidTitleErr(f.sch) ELSE err[p]
     IN /\ schemas' = IF runs THEN outlineSchema(f.sch).schemas ELSE schemas
        /\ stack' = [stack EXCEPT ![p] =
                       IF rest # <<>> /\ f.byRef THEN [rest EXCEPT ![Len(rest)].sch = left]
                       ELSE rest]
        /\ status' = [status EXCEPT ![p] = IF rest = <<>> THEN "idle" ELSE "panicking"]
        /\ err' = [err EXCEPT ![p] = IF rest = <<>> THEN "" ELSE e]
        /\ hist' = IF rest = <<>>
                   THEN Append(hist, CallRec(p, FALSE, e, Schema0, schemas'))
                   ELSE hist
  /\ UNCHANGED <<ret, reserved, cur, ncalls, lock, paths, wit, built>>

\* A goroutine died of stack overflow, or the runtime found a concurrent map
\* access: the process is gone.
Dead == \E q \in Procs : status[q] \in {"overflow", "fatal"}

\* (Doc).TypeSchema(typ): a fresh schema and schemaAny(&sch, typ); max is the
\* number of top-level calls the driver makes.
TypeSchema(p, typ, max) ==
  /\ status[p] = "idle"
  /\ ~Dead
  /\ ncalls < max
  /\ ncalls' = ncalls + 1
  /\ cur' = [cur EXCEPT ![p] = [n |-> ncalls + 1, typ |-> typ, before |-> schemas]]
  /\ stack' = [stack EXCEPT ![p] = <<AnyFrame(typ, Schema0, FALSE)>>]
  /\ status' = [status EXCEPT ![p] = "running"]
  /\ UNCHANGED <<schemas, err, ret, reserved, hist, paths, wit, built>>

Call(p, typ) ==
  /\ TypeSchema(p, typ, MaxCalls)
  /\ UNCHANGED lock

\* One step of the traversal a goroutine is in.
Step(p) ==
  \/ Lookup(p)
  \/ Reserve(p)
  \/ SetItems(p)
  \/ CheckKey(p)
  \/ SetAddProps(p)
  \/ Fill(p)
  \/ PtrAfter(p)
  \/ FieldStep(p)
  \/ SetProp(p)
  \/ Unwind(p)

----------------------------------------------------------------------------
(* One goroutine using one document: a sequence of TypeSchema calls, each   *)
(* begun when the one before has returned or panicked (and was recovered). *)

\* The caller's schema is the zero Schema; no method has been called on it.
NoCalls == [sch |-> Schema0, op |-> "new", arg |-> "", before |-> Schema0, n |-> 0]

\* No value has been handed to nonZero.
NoWitness == [typ |-> NilType, val |-> <<>>, ok |-> FALSE, pc |-> "none"]

InitWith(procs) ==
  /\ schemas = <<>>
  /\ stack = [p \in procs |-> <<>>]
  /\ status = [p \in procs |-> "idle"]
  /\ err = [p \in procs |-> ""]
  /\ ret = [p \in procs |-> Schema0]
  /\ cur = [p \in procs |-> [n |-> 0, typ |-> NilType, before |-> <<>>]]
  /\ ncalls = 0
  /\ lock = {}
  /\ reserved = [n \in Types |-> <<>>]
  /\ hist = <<>>
  /\ paths = <<>>
  /\ wit = NoWitness
  /\ built = NoCalls

Init == InitWith({1})

\* The types the caller asks for: the shapes of the traversal (primitives,
\* pointers, slices, arrays, maps, records, cycles) and the test types of
\* part_005 that go with them.
Roots ==
  {NilType, "string", "int", "int32", "float64", "bool", "oas.Str", "*string", "**string",
   "func()", "[]string", "*[]string", "[]func()", "[2]int", "map[string]int",
   "map[int]string", "map[int]func()", "oas.Unit", "*oas.Unit", "oas.UnitWith", "oas.Node",
   "*oas.Node", "oas.A", "oas.B", "*oas.A", "*oas.B", "oas.S", "*oas.S", "oas.Outer",
   "oas.Embed", "oas.Inner", "*oas.Inner", "oas.Loop", "*oas.Loop", "oas.Bad",
   "oas.NullStr", "*oas.NullStr", "oas.IntStrPtr", "*oas.IntStrPtr"}

Next ==
  \/ \E typ \in Roots : Call(1, typ)
  \/ Step(1)

Spec == Init /\ [][Next]_vars

----------------------------------------------------------------------------
(* One goroutine asking for the types whose schema depends on their kind   *)
(* and on what their encoders return: arrays, slices and maps with and     *)
(* without encoders, map keys, records with embedded, skipped and          *)
(* unrepresentable fields, and the encoders whose output is sniffed.       *)

KindRoots ==
  {"string", "int", "*string", "**string", "oas.Str", "oas.Unit", "*oas.Unit", "oas.UnitWith",
   "[]string", "[2]int", "[]func()", "func()", "chan int", "interface {}", "unsafe.Pointer",
   "map[string]int", "map[int]string", "map[int]func()", "map[*string]int",
   "map[oas.Unit]int", "map[oas.Str]int", "map[string]func()", "map[oas.Unit]chan int",
   "map[*string][]func()",
   "oas.FailArr", "*oas.FailArr", "oas.Vec", "oas.Ids", "oas.Set", "oas.Opt", "oas.Enum",
   "*oas.Enum", "*time.Time", "oas.IntStrPtr", "*oas.IntStrPtr",
   "oas.Outer", "oas.OuterPtr", "oas.Skip", "oas.Skips", "oas.NullStr",
   "time.Time", "oas.Date", "oas.Clock", "oas.ClockT", "oas.Uuid", "oas.NullUuid",
   "oas.Guid", "oas.Dur", "oas.BadDate", "oas.BadUuid", "oas.DurOdd",
   "*oas.NullStr", "oas.NonNullStr", "*oas.NonNullStr", "oas.IntStr", "*oas.IntStr"}

NextKinds ==
  \/ \E typ \in KindRoots : Call(1, typ)
  \/ Step(1)

SpecKinds == Init /\ [][NextKinds]_vars

\* The types of a caller that registers the same set of types in one order or
\* another: primitives, pointers, slices, maps and records that refer to
\* themselves or to each other, and a map type that is not supported.
OrderRoots ==
  {"int", "*string", "[]string", "*[]string", "map[string]int", "oas.Node", "*oas.Node",
   "oas.A", "oas.B", "oas.S", "*oas.S", "oas.SA", "oas.SB", "*oas.SA", "oas.MR", "oas.R", "*oas.MR",
   "oas.Unit", "*oas.Unit", "map[int]string"}

NextOrder ==
  \/ \E typ \in OrderRoots : Call(1, typ)
  \/ Step(1)

SpecOrder == Init /\ [][NextOrder]_vars

----------------------------------------------------------------------------
(* The witness synthesizer on its own, as Test_nonZero drives it:          *)
(* val := r.New(typ).Elem(), then nonZero(val).                            *)

\* val := r.New(r.TypeOf(exp)).Elem()
NewValue(typ) ==
  /\ wit.pc \in {"none", "done"}
  /\ wit' = [typ |-> typ, val |-> Zero(typ), ok |-> FALSE, pc |-> "new"]
  /\ UNCHANGED <<schemas, stack, status, err, ret, cur, ncalls, lock, reserved, hist, paths, built>>

\* nonZero(val)
MakeNonZero ==
  /\ wit.pc = "new"
  /\ wit' = [typ |-> wit.typ, val |-> nonZeroVal(wit.typ, wit.val).val,
             ok |-> nonZeroVal(wit.typ, wit.val).ok, pc |-> "done"]
  /\ UNCHANGED <<schemas, stack, status, err, ret, cur, ncalls, lock, reserved, hist, paths, built>>

NextWitness ==
  \/ \E typ \in WitnessTypes : NewValue(typ)
  \/ MakeNonZero

SpecWitness == Init /\ [][NextWitness]_vars

----------------------------------------------------------------------------
(* Route registration: Doc.Route, Paths.Route, Path.Method.  A Path is its *)
(* eight method slots, each <<>> (nil) or <<op>> (a pointer to a copy of   *)
(* op); of an Op the summary and the description are kept.                *)

\* Calls of Doc.Route the caller makes.
MaxRoutes == 2

\* http.MethodGet ... http.MethodTrace, the cases of Path.Method
Methods == {"GET", "PUT", "POST", "DELETE", "OPTIONS", "HEAD", "PATCH", "TRACE"}

ErrMethod == "unrecognized method"

\* The zero Path: what self[path] gives for a path that is not in the map.
Path0 == [m \in Methods |-> <<>>]

\* The paths, methods and ops the caller passes.
RoutePaths == {"/", "/ents"}

RouteMethods == Methods \cup {"BREW"}

RouteOps == [Sum : {"", "list"}, Desc : {"", "text"}]

\* (Path).Method: self.Get = &op and so on; the panic it raises, or "".
MethodErr(meth) == IF meth \in Methods THEN "" ELSE ErrMethod

Method(val, meth, op) == [val EXCEPT ![meth] = <<op>>]

\* Paths.Route: if op.Sum == `` { op.Sum = path }; val := self[path];
\* val.Method(meth, op); self[path] = val
PathsRoute(self, path, meth, op) ==
  LET val == IF path \in DOMAIN self THEN self[path] ELSE Path0 IN
  [p \in (DOMAIN self) \cup {path} |->
     IF p = path
     THEN Method(val, meth, IF op.Sum = "" THEN [op EXCEPT !.Sum = path] ELSE op)
     ELSE self[p]]

\* What a call of Doc.Route was given and did.
RouteRec(path, meth, op, ok, after) ==
  [path |-> path, meth |-> meth, op |-> op, ok |-> ok, before |-> paths, after |-> after]

\* Doc.Route(path, meth, op): self.Paths.Init().Route(path, meth, op); a panic
\* of Method leaves the map as it was.
Route(path, meth, op) ==
  /\ Len(hist) < MaxRoutes
  /\ IF MethodErr(meth) # ""
     THEN /\ err' = [err EXCEPT ![1] = MethodErr(meth)]
          /\ hist' = Append(hist, RouteRec(path, meth, op, FALSE, paths))
          /\ UNCHANGED paths
     ELSE /\ paths' = PathsRoute(paths, path, meth, op)
          /\ hist' = Append(hist, RouteRec(path, meth, op, TRUE, paths'))
          /\ err' = [err EXCEPT ![1] = ""]
  /\ UNCHANGED <<schemas, stack, status, ret, cur, ncalls, lock, reserved, wit, built>>

NextRoute == \E path \in RoutePaths : \E meth \in RouteMethods : \E op \in RouteOps :
               Route(path, meth, op)

SpecRoute == Init /\ [][NextRoute]_vars

----------------------------------------------------------------------------
(* The caller builds a type set by hand: a sequence of TypeAdd and Nullable  *)
(* calls on a Schema that starts as the zero value.  The same driver can    *)
(* instead run the traversal, which builds its type sets with the same     *)
(* methods and with plain assignments.                                     *)

MaxAdds == 4

Tags == {TypeNull, TypeInt, TypeNum, TypeStr, TypeBool, TypeObj, TypeArr}

Built(op, arg, sch) ==
  [sch |-> sch, op |-> op, arg |-> arg, before |-> built.sch, n |-> built.n + 1]

\* built.TypeAdd(val)
TypeAddCall(val) ==
  /\ ncalls = 0
  /\ built.n < MaxAdds
  /\ built' = Built("TypeAdd", val, TypeAdd(built.sch, val))
  /\ UNCHANGED <<schemas, stack, status, err, ret, cur, ncalls, lock, reserved, hist, paths, wit>>

\* built.Nullable(): the schema is no reference, so there is no panic.
NullableCall ==
  /\ ncalls = 0
  /\ built.n < MaxAdds
  /\ NullableErr(built.sch) = ""
  /\ built' = Built("Nullable", "", Nullable(built.sch))
  /\ UNCHANGED <<schemas, stack, status, err, ret, cur, ncalls, lock, reserved, hist, paths, wit>>

NextTypeSets ==
  \/ built.n = 0 /\ NextKinds
  \/ \E val \in Tags : TypeAddCall(val)
  \/ NullableCall

SpecTypeSets == Init /\ [][NextTypeSets]_vars

----------------------------------------------------------------------------
(* Two goroutines using one document with no synchronization.  The steps   *)
(* of their traversals interleave; every access to Doc.Comps.Schemas is   *)
(* one step.  A Go map accessed by two goroutines at once, one of them     *)
(* writing, is a data race: the accesses take effect in either order, or  *)
(* the runtime detects the race and ends the process (fatal error:        *)
(* concurrent map writes / concurrent map read and map write).            *)

RaceProcs == {1, 2}

\* The types the racing callers ask for: a slice, a map, a record that reaches
\* itself through a pointer.
RaceRoots == {"[]string", "map[string]int", "oas.Node"}

\* Top-level calls the two racing goroutines make together.
RaceCalls == 3

\* The next step of p writes the map: setSchema inserting the placeholder,
\* addSchema (on return or while a panic unwinds).
WritesMap(p) ==
  /\ stack[p] # <<>>
  /\ Top(p).fn = "any"
  /\ \/ status[p] = "running" /\ Top(p).pc = "reserve"
                              /\ typeName(Top(p).typ) \notin DOMAIN schemas
     \/ status[p] = "running" /\ Top(p).pc = "fill" /\ ValidTitleErr(Top(p).sch) = ""
     \/ status[p] = "panicking" /\ Top(p).pc \in Armed /\ ValidTitleErr(Top(p).sch) = ""

\* The next step of p reads the map: GotCompSchema in schemaAny, GotSchema in
\* schemaPtr, the existence check of setSchema.
ReadsMap(p) ==
  /\ status[p] = "running"
  /\ stack[p] # <<>>
  /\ Top(p).fn = "any"
  /\ \/ Top(p).pc = "lookup" /\ Top(p).typ # NilType /\ typeNameErr(Top(p).typ) = ""
     \/ Top(p).pc = "reserve"
     \/ Top(p).pc = "ptr_after" /\ Top(p).sch.Ref # ""

\* The runtime finds goroutine p writing the map while q accesses it.
MapFault(p, q) ==
  /\ p # q
  /\ WritesMap(p)
  /\ WritesMap(q) \/ ReadsMap(q)
  /\ status' = [r \in Procs |-> "fatal"]
  /\ UNCHANGED <<schemas, stack, err, ret, cur, ncalls, lock, reserved, hist, paths, wit, built>>

NextRace ==
  \E p \in RaceProcs :
    \/ \E typ \in RaceRoots : TypeSchema(p, typ, RaceCalls) /\ UNCHANGED lock
    \/ Step(p)
    \/ \E q \in RaceProcs : MapFault(p, q)

SpecRace == InitWith(RaceProcs) /\ [][NextRace]_vars

----------------------------------------------------------------------------
(* Goroutines that take one mutex around every top-level call:             *)
(* mu.Lock(); defer mu.Unlock(); doc.TypeSchema(typ).                      *)

\* Goroutines sharing the document and the mutex.
NProcs == 2

LockedRoots ==
  {"int", "[]string", "*[]string", "map[string]int", "map[int]string", "oas.Node",
   "*oas.Node", "oas.A", "oas.Bad", "oas.Outer"}

\* mu.Lock() succeeds and the call begins.
LockedCall(p, typ) ==
  /\ lock = {}
  /\ lock' = {p}
  /\ TypeSchema(p, typ, MaxCalls)

\* The deferred mu.Unlock(), when the call has returned or panicked.
Unlock(p) ==
  /\ lock = {p}
  /\ status[p] = "idle"
  /\ lock' = {}
  /\ UNCHANGED <<schemas, stack, status, err, ret, cur, ncalls, reserved, hist, paths, wit, built>>

NextLocked ==
  \E p \in 1..NProcs :
    \/ \E typ \in LockedRoots : LockedCall(p, typ)
    \/ Step(p)
    \/ Unlock(p)

SpecLocked == InitWith(1..NProcs) /\ [][NextLocked]_vars

----------------------------------------------------------------------------
(* The traversal as one function of the registry: what a call of           *)
(* TypeSchema does to a registry reg when nothing else touches the         *)
(* document while it runs.  A result is the registry as left, the schema  *)
(* as left in the callee's Schema, and the panic ("" when it returned).   *)
(* depth counts the activations on the stack, as the frames above do.     *)

ErrOverflow == "stack-overflow"

Out(reg, sch, e) == [reg |-> reg, sch |-> sch, err |-> e]

\* The deferred outlineSchema(sch), run when the method returns or panics
\* with r.err.
seqOutline(r) ==
  IF r.err = ErrOverflow THEN r
  ELSE IF ValidTitleErr(r.sch) # "" THEN Out(r.reg, r.sch, ValidTitleErr(r.sch))
  ELSE Out(SchemasPut(r.reg, ValidTitle(r.sch), r.sch), setRef(r.sch, ValidTitle(r.sch)), r.err)

\* schemaPtr after schemaAny(sch, typ.Elem()) ended as r.
seqPtr(r, typ) ==
  IF r.err # "" THEN r
  ELSE IF r.sch.Ref = ""
       THEN Out(r.reg, Nullable([r.sch EXCEPT !.Title = typeName(typ)]), "")
  ELSE IF ~unprefix(r.sch.Ref).ok THEN Out(r.reg, r.sch, ErrRefPath)
  ELSE IF unprefix(r.sch.Ref).name \notin DOMAIN r.reg THEN Out(r.reg, r.sch, ErrMissingComp)
  ELSE IF r.reg[unprefix(r.sch.Ref).name].Ref # "" THEN Out(r.reg, r.sch, ErrDoubleRef)
  ELSE IF IsNullable(r.reg[unprefix(r.sch.Ref).name]) THEN r
  ELSE Out(r.reg, NullSchema(typeName(typ), r.sch), "")

\* sch.Items = self.TypeSchema(typ.Elem()).Opt(), the call having ended as r.
seqItems(sch, r) ==
  IF r.err # "" THEN Out(r.reg, sch, r.err)
  ELSE Out(r.reg, [sch EXCEPT !.Items = Opt(r.sch)], "")

\* sch.AddProps = self.TypeSchema(elemType).Opt(), the call having ended as r.
seqAddProps(sch, r) ==
  IF r.err # "" THEN Out(r.reg, sch, r.err)
  ELSE Out(r.reg, [sch EXCEPT !.AddProps = Opt(r.sch)], "")

RECURSIVE seqAny(_, _, _, _)
RECURSIVE seqProps(_, _, _, _, _)

\* A call made by an activation at depth: past the stack limit it never returns.
seqCall(reg, typ, depth) ==
  IF depth >= StackCap THEN Out(reg, Schema0, ErrOverflow)
  ELSE seqAny(reg, Schema0, typ, depth + 1)

\* schemaMap after the key's schema was computed as k.
seqMapKeyed(sch, typ, k, depth) ==
  IF k.err # "" THEN Out(k.reg, sch, k.err)
  ELSE IF validKeyFor(k.sch) # "" THEN Out(k.reg, sch, validKeyFor(k.sch))
  ELSE seqAddProps(sch, seqCall(k.reg, Elem(typ), depth))

\* The bodies of schemaArray, schemaSlice, schemaMap, schemaStruct after the
\* placeholder was set.
seqBody(reg, sch, typ, depth) ==
  CASE Kind(typ) = "Array" ->
         seqItems([sch EXCEPT !.MaxItems = TypeTab[typ].Len, !.MinItems = TypeTab[typ].Len],
                  seqCall(reg, Elem(typ), depth))
    [] Kind(typ) = "Slice" ->
         seqItems([sch EXCEPT !.Type = <<TypeArr, TypeNull>>], seqCall(reg, Elem(typ), depth))
    [] Kind(typ) = "Map" ->
         IF isTypeSkippable(Elem(typ))
         THEN Out(reg, schemaNone([sch EXCEPT !.Type = <<TypeObj, TypeNull>>]), "")
         ELSE seqMapKeyed([sch EXCEPT !.Type = <<TypeObj, TypeNull>>], typ,
                          seqCall(reg, TypeTab[typ].Key, depth), depth)
    [] Kind(typ) = "Struct" ->
         IF depth >= StackCap THEN Out(reg, sch, ErrOverflow)
         ELSE seqProps(reg, [sch EXCEPT !.Type = <<TypeObj>>], typ, 1, depth + 1)

\* schemaStructProp and the rest of the loop, the call having ended as r.
seqProp(sch, typ, ind, name, r, depth) ==
  IF r.err # "" THEN Out(r.reg, sch, r.err)
  ELSE seqProps(r.reg, [sch EXCEPT !.Props = SchemasPut(@, name, r.sch)], typ, ind + 1, depth)

\* The rest of the loop after the fields of an embedded struct were added as r.
seqFlat(typ, ind, r, depth) ==
  IF r.err # "" THEN r ELSE seqProps(r.reg, r.sch, typ, ind + 1, depth)

\* schemaStructProps from field ind on.
seqProps(reg, sch, typ, ind, depth) ==
  IF ind > Len(TypeTab[typ].Fields) THEN Out(reg, sch, "")
  ELSE IF \/ ~isPublic(TypeTab[typ].Fields[ind].PkgPath)
          \/ isTypeSkippable(TypeTab[typ].Fields[ind].Type)
       THEN seqProps(reg, sch, typ, ind + 1, depth)
  ELSE IF jsonName(TypeTab[typ].Fields[ind]) # ""
       THEN seqProp(sch, typ, ind, jsonName(TypeTab[typ].Fields[ind]),
                    seqCall(reg, TypeTab[typ].Fields[ind].Type, depth), depth)
  ELSE IF /\ TypeTab[typ].Fields[ind].Anonymous
          /\ Kind(typeDeref(TypeTab[typ].Fields[ind].Type)) = "Struct"
       THEN IF depth >= StackCap THEN Out(reg, sch, ErrOverflow)
            ELSE seqFlat(typ, ind,
                         seqProps(reg, sch, typeDeref(TypeTab[typ].Fields[ind].Type), 1,
                                  depth + 1),
                         depth)
  ELSE IF TypeTab[typ].Fields[ind].Name # ""
       THEN seqProp(sch, typ, ind, TypeTab[typ].Fields[ind].Name,
                    seqCall(reg, TypeTab[typ].Fields[ind].Type, depth), depth)
  ELSE seqProps(reg, sch, typ, ind + 1, depth)

\* schemaAny after schemaIfaces returned ifc.
seqSwitch(reg, typ, ifc, depth) ==
  IF ifc.over THEN Out(reg, ifc.sch, ErrOverflow)
  ELSE IF ifc.ok THEN Out(reg, ifc.sch, "")
  ELSE IF Kind(typ) \in ScalarKinds THEN Out(reg, schemaScalar(ifc.sch, Kind(typ)), "")
  ELSE IF Kind(typ) = "Ptr"
       THEN IF depth >= StackCap THEN Out(reg, ifc.sch, ErrOverflow)
            ELSE seqPtr(seqAny(reg, ifc.sch, Elem(typ), depth + 1), typ)
  ELSE IF Kind(typ) \in {"Array", "Slice", "Map", "Struct"}
       THEN seqOutline(seqBody(SchemasPut(reg, typeName(typ), Schema0), ifc.sch, typ, depth))
  ELSE Out(reg, ifc.sch, ErrUnsupported)

\* schemaAny(sch, typ) on reg.
seqAny(reg, sch, typ, depth) ==
  IF typ = NilType
  THEN IF NullableErr(sch) # "" THEN Out(reg, sch, NullableErr(sch))
       ELSE Out(reg, schemaNone(sch), "")
  ELSE IF typeNameErr(typ) # "" THEN Out(reg, sch, typeNameErr(typ))
  ELSE IF typeName(typ) \in DOMAIN reg
       THEN IF reg[typeName(typ)].Ref # "" THEN Out(reg, sch, ErrDoubleRef)
            ELSE IF setRefErr(sch, typeName(typ)) # ""
                 THEN Out(reg, sch, setRefErr(sch, typeName(typ)))
            ELSE Out(reg, setRef(sch, typeName(typ)), "")
  ELSE seqSwitch(reg, typ, schemaIfaces(schemaCommon(sch, typ), typ), depth)

\* The registry after the calls TypeSchema(typs[1]), TypeSchema(typs[2]), ...
\* made one after the other on a document whose registry is reg.
RECURSIVE seqRun(_, _)
seqRun(reg, typs) ==
  IF typs = <<>> THEN reg
  ELSE seqRun(seqAny(reg, Schema0, Head(typs), 1).reg, Tail(typs))

----------------------------------------------------------------------------
(* Properties.  hist[i] is the i-th finished top-level call: its type, the *)
(* goroutine, whether it returned (ok) or panicked (err), the schema it    *)
(* returned, and the registry when it began (before) and ended (after).   *)

Calls == 1..Len(hist)

\* The reference-only schema naming component n.
RefTo(n) == [Schema0 EXCEPT !.Ref = "#/components/schemas/" \o n]

\* The schema { type: [null] }.
JustNull == [Schema0 EXCEPT !.Type = <<"null">>]

\* Goroutine p takes a step.
Steps(p) == stack'[p] # stack[p] \/ (status'[p] # status[p] /\ status'[p] # "fatal")

\* What the activation on top of p's stack hands to its caller in this step.
Handed(p) == IF stack'[p] = <<>> THEN hist'[Len(hist')].ret ELSE ret'[p]

\* C1 (idempotence): when every call made so far on the document returned, a
\* call for a type that was asked for before returns, returns the schema the
\* earlier call returned, and leaves the registry as it found it, which, when
\* it directly follows the earlier call, is the registry that call left; it
\* does not fail with the redundant-component error.
C1_Idempotent ==
  \A i \in Calls : \A j \in Calls :
    ( /\ i < j
      /\ hist[i].typ = hist[j].typ
      /\ \A k \in 1..(j - 1) : hist[k].ok )
    => /\ hist[j].ok
       /\ hist[j].err # ErrRedundant
       /\ hist[j].ret = hist[i].ret
       /\ hist[j].after = hist[j].before
       /\ (j = i + 1 => hist[j].after = hist[i].after)

\* A composite type was registered by one call and asked for again.
C1_Witness ==
  \E i \in Calls : \E j \in Calls :
    /\ i < j
    /\ hist[i].typ = hist[j].typ
    /\ hist[i].ok
    /\ hist[j].ok
    /\ hist[i].after # hist[i].before

\* C2 (termination): no goroutine's traversal recurses until the stack limit
\* is hit; every call returns or panics.
C2_EveryCallFinishes == \A p \in Procs : status[p] # "overflow"

\* A stack within four frames of the limit holds the same activation twice:
\* the traversals that end stay below that depth, the one that reaches it is
\* repeating itself.
DeepStacksRepeat ==
  \A p \in Procs :
    Len(stack[p]) + 4 > StackCap =>
      \E i \in 1..Len(stack[p]) : \E j \in 1..Len(stack[p]) :
        i < j /\ stack[p][i] = stack[p][j]

\* C3, first part: a lookup that finds the name in the registry, placeholder
\* or body, returns the reference-only schema to that name; it does not panic,
\* pushes nothing, reserves nothing and leaves the registry alone.
C3_HitBecomesRef ==
  \A p \in Procs :
    ( /\ Running(p, "any", "lookup")
      /\ Top(p).typ # NilType
      /\ Top(p).typ \in DOMAIN schemas
      /\ Steps(p) )
    => /\ status'[p] \in {"running", "idle"}
       /\ Len(stack'[p]) = Len(stack[p]) - 1
       /\ Handed(p) = RefTo(Top(p).typ)
       /\ schemas' = schemas
       /\ reserved' = reserved

\* C3, second part: no name is reserved (and so expanded) twice.
C3_ReservedOnce == \A n \in Types : Len(reserved[n]) <= 1

\* Field k of record type t is an exported, named field of type pointer to t.
SelfPointer(t, k) ==
  LET fld == TypeTab[t].Fields[k] IN
    /\ fld.PkgPath = ""
    /\ fld.Tag # <<>>
    /\ \A c \in 1..Len(fld.Tag) : fld.Tag[c] \notin {",", "-"}
    /\ Kind(fld.Type) = "Ptr"
    /\ Elem(fld.Type) = t

\* C3, third part: a record registered by a call that returned has, for each
\* field that is a pointer to the record itself, a property whose first
\* alternative is the reference to the record's own component.
C3_SelfPointerRefersBack ==
  \A i \in Calls :
    hist[i].ok =>
      \A t \in (DOMAIN hist[i].after) \ (DOMAIN hist[i].before) :
        Kind(t) = "Struct" =>
          \A k \in 1..Len(TypeTab[t].Fields) :
            SelfPointer(t, k) =>
              LET name == Str(TypeTab[t].Fields[k].Tag) IN
                /\ name \in DOMAIN hist[i].after[t].Props
                /\ hist[i].after[t].Props[name].OneOf # <<>>
                /\ hist[i].after[t].Props[name].OneOf[1] = RefTo(t)

\* C3 (cycle breaking): the three parts together.
C3_CycleBreaking ==
  /\ [](C3_ReservedOnce /\ C3_SelfPointerRefersBack)
  /\ [][C3_HitBecomesRef]_vars

\* The record that points to itself was registered, its property refers back
\* to it, and the type was asked for a second time.
C3_Witness ==
  /\ Len(hist) = 2
  /\ hist[1].typ = "oas.Node"
  /\ hist[2].typ = "*oas.Node"
  /\ hist[2].ok
  /\ "oas.Node" \in DOMAIN schemas
  /\ "next" \in DOMAIN schemas["oas.Node"].Props
  /\ schemas["oas.Node"].Props["next"].OneOf[1] = RefTo("oas.Node")
  /\ reserved["oas.Node"] = <<1>>

\* C4, state part: no key of the registry is the empty string.
C4_KeysNonEmpty == "" \notin DOMAIN schemas

\* C4, step part: no step removes a key, and no step changes a body that is
\* not the empty placeholder.
C4_Kept ==
  \A n \in DOMAIN schemas :
    /\ n \in DOMAIN schemas'
    /\ schemas[n] # Schema0 => schemas'[n] = schemas[n]

\* C4 (registry monotonicity): the two parts together.
C4_Monotone == [](C4_KeysNonEmpty) /\ [][C4_Kept]_vars

\* A call made on a registry that held bodies already added to it.
C4_Witness ==
  \E i \in Calls :
    /\ hist[i].before # <<>>
    /\ hist[i].after # hist[i].before
    /\ \E n \in DOMAIN hist[i].before : hist[i].before[n] # Schema0

\* C5 (no double indirection): no registry body is a reference, and no lookup
\* raised the double-reference panic.
C5_NoDoubleIndirection ==
  /\ \A n \in DOMAIN schemas : schemas[n].Ref = ""
  /\ \A p \in Procs : err[p] # ErrDoubleRef
  /\ \A i \in Calls : hist[i].err # ErrDoubleRef

\* A call on a registry that held components returned a union around a
\* reference: GotCompSchema and GotSchema both found a component.
C5_Witness ==
  \E i \in Calls :
    /\ hist[i].ok
    /\ hist[i].before # <<>>
    /\ Len(hist[i].ret.OneOf) = 2
    /\ hist[i].ret.OneOf[1].Ref # ""

\* C6 (failure atomicity): a call that panicked with unsupported-kind or
\* unsupported-map-key left the registry as it was when the call began.
C6_FailureLeavesRegistry ==
  \A i \in Calls :
    (~hist[i].ok /\ hist[i].err \in {ErrUnsupported, ErrMapKey})
      => hist[i].after = hist[i].before

\* C7, step part: when a goroutine's setSchema panics with
\* redundant-component, the name was reserved by the other goroutine (the
\* panicking one found it missing at its own lookup) and never by itself.
C7_RedundantOnlyByRace ==
  \A p \in Procs :
    (status[p] = "running" /\ status'[p] = "panicking" /\ err'[p] = ErrRedundant)
    => /\ Top(p).pc = "reserve"
       /\ reserved[Top(p).typ] # <<>>
       /\ \A k \in 1..Len(reserved[Top(p).typ]) : reserved[Top(p).typ][k] # p

\* C7, state part: a placeholder left unfilled in the registry when a call
\* returned was reserved by the other goroutine, never by the caller itself.
C7_UnfilledOnlyOthers ==
  \A i \in Calls :
    hist[i].ok =>
      \A n \in DOMAIN hist[i].after :
        hist[i].after[n] = Schema0 =>
          \A k \in 1..Len(reserved[n]) : reserved[n][k] # hist[i].proc

\* C7 (unsynchronized use): the reserve-then-fill protocol is broken only
\* across goroutines: by a reservation made between the other's lookup and
\* reservation, or by a lookup that finds the other's placeholder.
C7_BrokenOnlyAcrossGoroutines ==
  /\ [](C7_UnfilledOnlyOthers)
  /\ [][C7_RedundantOnlyByRace]_vars

\* Both failures of the protocol have happened: one call panicked with
\* redundant-component, and one call returned the reference to a component
\* that was still the other goroutine's empty placeholder.
C7_Witness ==
  /\ \E i \in Calls : ~hist[i].ok /\ hist[i].err = ErrRedundant
  /\ \E j \in Calls : \E n \in RaceRoots :
       /\ hist[j].ok
       /\ hist[j].ret = RefTo(n)
       /\ n \in DOMAIN hist[j].after
       /\ hist[j].after[n] = Schema0

\* C8, state part: a goroutine inside a call holds the mutex; nothing failed
\* with redundant-component; calls finish in the order they began; and with
\* the mutex free the registry is the one the same calls, made one after the
\* other in that order on an empty document, produce.
C8_AsIfSequential ==
  /\ \A p \in Procs : status[p] # "idle" => lock = {p}
  /\ \A p \in Procs : err[p] # ErrRedundant
  /\ \A i \in Calls : hist[i].err # ErrRedundant /\ hist[i].n = i
  /\ (lock = {} /\ ~Dead) => schemas = seqRun(<<>>, [i \in Calls |-> hist[i].typ])

\* Goroutine p's step reads the registry entry of n and finds the empty
\* placeholder: the lookup of schemaAny, or the lookup of schemaPtr.
SeesPlaceholder(p, n) ==
  /\ Steps(p)
  /\ status[p] = "running"
  /\ stack[p] # <<>>
  /\ Top(p).fn = "any"
  /\ n \in DOMAIN schemas
  /\ schemas[n] = Schema0
  /\ \/ Top(p).pc = "lookup" /\ Top(p).typ = n
     \/ Top(p).pc = "ptr_after" /\ Top(p).sch = RefTo(n)

\* C8, step part: a placeholder found by a lookup was reserved by the
\* goroutine that finds it.
C8_OwnPlaceholdersOnly ==
  \A p \in Procs : \A n \in Types :
    SeesPlaceholder(p, n) => reserved[n] # <<>> /\ reserved[n][Len(reserved[n])] = p

\* C8 (serialized use): the two parts together.
C8_SerializedIsSafe ==
  /\ [](C8_AsIfSequential)
  /\ [][C8_OwnPlaceholdersOnly]_vars

\* Two goroutines have each finished a call that changed the registry, the
\* second on the registry the first left, and the mutex is free.
C8_Witness ==
  /\ lock = {}
  /\ \E i \in Calls : \E j \in Calls :
       /\ i < j
       /\ hist[i].proc # hist[j].proc
       /\ hist[i].after # hist[i].before
       /\ hist[j].before = hist[i].after
       /\ hist[j].after # hist[j].before

\* The type tag the specification gives a primitive kind.
PrimTag(kind) ==
  CASE kind \in {"Int8", "Int16", "Int32", "Int64", "Int",
                 "Uint8", "Uint16", "Uint32", "Uint64", "Uint"} -> "integer"
    [] kind \in {"Float32", "Float64"} -> "number"
    [] kind = "Bool" -> "boolean"
    [] kind = "String" -> "string"

\* A type of primitive kind whose method set has no MarshalJSON or MarshalText.
PlainPrimitive(typ) ==
  /\ typ # NilType
  /\ Kind(typ) \in {"Int8", "Int16", "Int32", "Int64", "Int", "Uint8", "Uint16", "Uint32",
                    "Uint64", "Uint", "Float32", "Float64", "Bool", "String"}
  /\ TypeTab[typ].Json = "none"
  /\ TypeTab[typ].Text = "none"

\* C9 (primitives): a call for a plain primitive type returns an inline schema
\* titled with the type's name, with the one type tag of its kind and no
\* reference, and leaves the registry as it was.
C9_PrimitiveInline ==
  \A i \in Calls :
    PlainPrimitive(hist[i].typ) =>
      /\ hist[i].ok
      /\ hist[i].ret.Title = hist[i].typ
      /\ hist[i].ret.Type = <<PrimTag(Kind(hist[i].typ))>>
      /\ hist[i].ret.Ref = ""
      /\ hist[i].after = hist[i].before

\* A primitive type was asked for on a registry that holds components.
C9_Witness ==
  \E i \in Calls :
    /\ PlainPrimitive(hist[i].typ)
    /\ hist[i].ok
    /\ hist[i].before # <<>>

\* Pointer type typ, asked for by a call that left the registry as after, has
\* a referent that resolved to a named component that is not nullable.
PointerToPlainComponent(typ, after) ==
  /\ typ # NilType
  /\ Kind(typ) = "Ptr"
  /\ Elem(typ) \in DOMAIN after
  /\ ~IsNullable(after[Elem(typ)])

\* C10 (pointer to a component): the call returns the schema titled with the
\* pointer type's name whose only content is oneOf [reference to the referent,
\* {type: [null]}]; the registry holds the referent and nothing under the
\* pointer type's name.
C10_PointerToComponent ==
  \A i \in Calls :
    (hist[i].ok /\ PointerToPlainComponent(hist[i].typ, hist[i].after))
    => /\ hist[i].ret = [Schema0 EXCEPT !.Title = hist[i].typ,
                                        !.OneOf = <<RefTo(Elem(hist[i].typ)), JustNull>>]
       /\ Elem(hist[i].typ) \in DOMAIN hist[i].after
       /\ hist[i].typ \notin DOMAIN hist[i].after

\* A pointer to a record was asked for on a registry without the record, and
\* the call registered the record.
C10_Witness ==
  \E i \in Calls :
    /\ hist[i].ok
    /\ PointerToPlainComponent(hist[i].typ, hist[i].after)
    /\ Elem(hist[i].typ) \notin DOMAIN hist[i].before
    /\ Kind(Elem(hist[i].typ)) = "Struct"

\* C11 (pointer wrapping leaves the referent's component alone): a call for a
\* pointer type that returns leaves, under the name of its referent T, the
\* body a call for T alone on a fresh document stores there, and leaves a body
\* that was stored before the call as it was.
C11_PointerLeavesReferent ==
  \A i \in Calls :
    (hist[i].ok /\ Kind(hist[i].typ) = "Ptr" /\ typeDeref(hist[i].typ) \in DOMAIN hist[i].after)
    => LET T == typeDeref(hist[i].typ) IN
       /\ T \in DOMAIN hist[i].before => hist[i].after[T] = hist[i].before[T]
       /\ hist[i].before = <<>> =>
            /\ T \in DOMAIN seqRun(<<>>, <<T>>)
            /\ hist[i].after[T] = seqRun(<<>>, <<T>>)[T]

\* The schema is inline with a type set of one tag that is not null.
InlineOfOneKind(sch) ==
  /\ sch.Ref = ""
  /\ sch.OneOf = <<>>
  /\ Len(sch.Type) = 1
  /\ sch.Type[1] # "null"

\* Calls i and j both returned, j was for a chain of pointers over the type of
\* call i, and call i returned an inline schema with one type tag.
PointerChainOver(i, j) ==
  /\ hist[i].ok
  /\ hist[j].ok
  /\ Kind(hist[j].typ) = "Ptr"
  /\ typeDeref(hist[j].typ) = hist[i].typ
  /\ InlineOfOneKind(hist[i].ret)

\* The call returned the inline schema titled with its pointer type whose type
\* set is the tag K followed by null, without oneOf, and left the registry as
\* it was.
NullableInline(j, K) ==
  /\ hist[j].ret.Ref = ""
  /\ hist[j].ret.Title = hist[j].typ
  /\ hist[j].ret.Type = <<K, "null">>
  /\ hist[j].ret.OneOf = <<>>
  /\ hist[j].after = hist[j].before

\* C12 as stated (pointer chain over an inline referent): for every referent
\* whose own schema is inline with type set [K], a call for a chain of
\* pointers over it returns the inline schema with type set [K, null].
C12_PointerChainInline ==
  \A i \in Calls : \A j \in Calls :
    PointerChainOver(i, j) => NullableInline(j, hist[i].ret.Type[1])

\* C12 as amended: the same, for referents whose encoding methods, if any,
\* have value receivers, so that the pointer type has no encoder the referent
\* lacks.
C12_PointerChainInlineValueReceivers ==
  \A i \in Calls : \A j \in Calls :
    ( /\ PointerChainOver(i, j)
      /\ TypeTab[hist[i].typ].Json # "ptr"
      /\ TypeTab[hist[i].typ].Text # "ptr" )
    => NullableInline(j, hist[i].ret.Type[1])

\* A primitive and a chain of two pointers over it were both asked for.
C12_Witness ==
  \E i \in Calls : \E j \in Calls :
    /\ PointerChainOver(i, j)
    /\ Kind(Elem(hist[j].typ)) = "Ptr"
    /\ TypeTab[hist[i].typ].Json = "none"
    /\ hist[j].ret.Type = <<hist[i].ret.Type[1], "null">>

\* Every body stored under the name of a slice or map type has null in its
\* type set.
SliceAndMapBodiesNullable ==
  \A n \in DOMAIN schemas :
    (Kind(n) \in {"Slice", "Map"} /\ schemas[n] # Schema0) => TypeHas(schemas[n], "null")

C14_ArrayComponent ==
  \A n \in DOMAIN schemas :
    (Kind(n) = "Array" /\ schemas[n] # Schema0) =>
      /\ schemas[n].MinItems = TypeTab[n].Len
      /\ schemas[n].MaxItems = TypeTab[n].Len
      /\ ~TypeHas(schemas[n], "null")

\* The call entered schemaMap with a value type that is kept: a map type that
\* was not in the registry and that schemaIfaces did not classify.
MapDecomposed(j) ==
  /\ Kind(hist[j].typ) = "Map"
  /\ ~isTypeSkippable(Elem(hist[j].typ))
  /\ hist[j].typ \notin DOMAIN hist[j].before
  /\ ~schemaIfaces(schemaCommon(Schema0, hist[j].typ), hist[j].typ).ok

\* Call i returned the schema of the key type of the map type of call j.
KeySchemaCall(i, j) ==
  /\ hist[i].ok
  /\ hist[i].typ = TypeTab[hist[j].typ].Key

\* C15 (map keys): a call that decomposes a map type returns if and only if
\* the schema returned for the key type has the type set [string] and nothing
\* else; for every other key schema it panics with the unsupported-map-key
\* error.
C15_MapKeyExactlyString ==
  \A i \in Calls : \A j \in Calls :
    (MapDecomposed(j) /\ KeySchemaCall(i, j)) =>
      IF hist[i].ret.Type = <<"string">>
      THEN hist[j].ok
      ELSE ~hist[j].ok /\ hist[j].err = ErrMapKey

\* A map keyed by pointer-to-string was asked for, and so was its key type,
\* whose schema is the nullable string.
C15_Witness ==
  \E i \in Calls : \E j \in Calls :
    /\ MapDecomposed(j)
    /\ KeySchemaCall(i, j)
    /\ hist[i].ret.Type = <<"string", "null">>
    /\ hist[j].err = ErrMapKey

\* The type under every pointer layer of typ.
RECURSIVE PointerStripped(_)
PointerStripped(typ) == IF Kind(typ) = "Ptr" THEN PointerStripped(Elem(typ)) ELSE typ

\* A field that is kept: visible, and of a type that can be represented.
Retained(field) == field.PkgPath = "" /\ ~isTypeSkippable(field.Type)

\* The indexes of the fields of typ that are flattened: embedded, retained,
\* without external name, and a record under their pointer layers.
FlattenedFields(typ) ==
  {k \in 1..Len(TypeTab[typ].Fields) :
     /\ TypeTab[typ].Fields[k].Anonymous
     /\ Retained(TypeTab[typ].Fields[k])
     /\ jsonName(TypeTab[typ].Fields[k]) = ""
     /\ Kind(PointerStripped(TypeTab[typ].Fields[k].Type)) = "Struct"}

\* The record type embedded by field k of typ.
EmbeddedType(typ, k) == PointerStripped(TypeTab[typ].Fields[k].Type)

\* The external names of the fields that typ declares itself and keeps.
DeclaredNames(typ) ==
  {IF jsonName(TypeTab[typ].Fields[k]) # "" THEN jsonName(TypeTab[typ].Fields[k])
   ELSE TypeTab[typ].Fields[k].Name :
     k \in {n \in 1..Len(TypeTab[typ].Fields) :
              ~TypeTab[typ].Fields[n].Anonymous /\ Retained(TypeTab[typ].Fields[n])}}

\* The properties of the component of the record type emb when it is asked
\* for alone on an empty document.
OwnProps(emb) == seqRun(<<>>, <<emb>>)[emb].Props

\* The type emb occurs, under pointer layers, as the type of a declared field
\* of typ.
DeclaredAs(typ, emb) ==
  \E k \in 1..Len(TypeTab[typ].Fields) :
    ~TypeTab[typ].Fields[k].Anonymous /\ PointerStripped(TypeTab[typ].Fields[k].Type) = emb

\* Call i returned for a record type that has flattened fields and was not in
\* the registry.
FlatteningCall(i) ==
  /\ hist[i].ok
  /\ Kind(hist[i].typ) = "Struct"
  /\ FlattenedFields(hist[i].typ) # {}
  /\ hist[i].typ \notin DOMAIN hist[i].before
  /\ hist[i].typ \in DOMAIN hist[i].after

\* C16 (record flattening): the component of a record with flattened fields
\* has as properties the properties of the embedded record types and the
\* fields the record declares itself, the promoted ones with the schemas they
\* have in the embedded type's own component; it has no property named after
\* an embedded field; and an embedded type that was not registered before is
\* not registered after, unless a declared field has that type.
C16_RecordFlattening ==
  \A i \in Calls :
    FlatteningCall(i) =>
      /\ DOMAIN hist[i].after[hist[i].typ].Props =
           DeclaredNames(hist[i].typ) \cup
           UNION {DOMAIN OwnProps(EmbeddedType(hist[i].typ, k)) :
                    k \in FlattenedFields(hist[i].typ)}
      /\ \A k \in FlattenedFields(hist[i].typ) :
           /\ \A n \in DOMAIN OwnProps(EmbeddedType(hist[i].typ, k)) :
                hist[i].after[hist[i].typ].Props[n] = OwnProps(EmbeddedType(hist[i].typ, k))[n]
           /\ TypeTab[hist[i].typ].Fields[k].Name \notin DOMAIN hist[i].after[hist[i].typ].Props
           /\ ( /\ EmbeddedType(hist[i].typ, k) \notin DOMAIN hist[i].before
                /\ ~DeclaredAs(hist[i].typ, EmbeddedType(hist[i].typ, k)) )
              => EmbeddedType(hist[i].typ, k) \notin DOMAIN hist[i].after

\* A record that embeds a pointer to a record and declares one field of its
\* own was asked for on an empty document: its component has the promoted
\* property and its own, and the embedded type has no component.
C16_Witness ==
  \E i \in Calls :
    /\ FlatteningCall(i)
    /\ hist[i].before = <<>>
    /\ \E k \in FlattenedFields(hist[i].typ) :
         /\ Kind(TypeTab[hist[i].typ].Fields[k].Type) = "Ptr"
         /\ OwnProps(EmbeddedType(hist[i].typ, k)) # <<>>
         /\ EmbeddedType(hist[i].typ, k) \notin DOMAIN hist[i].after
    /\ DeclaredNames(hist[i].typ) # {}
    /\ DeclaredNames(hist[i].typ) \subseteq DOMAIN hist[i].after[hist[i].typ].Props

\* The json name written in the tag of the field: the tag up to its first
\* comma.
TagName(field) ==
  IF IndexComma(field.Tag) >= 0 THEN SubSeq(field.Tag, 1, IndexComma(field.Tag)) ELSE field.Tag

\* C17 (skip marker): the component of a record has no property for a retained
\* field whose json name is exactly "-", neither under "-" nor under the name
\* the field is declared with.
C17_SkipMarkerRemovesField ==
  \A i \in Calls :
    ( /\ hist[i].ok
      /\ Kind(hist[i].typ) = "Struct"
      /\ hist[i].before = <<>>
      /\ hist[i].typ \in DOMAIN hist[i].after )
    => \A k \in 1..Len(TypeTab[hist[i].typ].Fields) :
         ( /\ Retained(TypeTab[hist[i].typ].Fields[k])
           /\ TagName(TypeTab[hist[i].typ].Fields[k]) = <<"-">> )
         => /\ "-" \notin DOMAIN hist[i].after[hist[i].typ].Props
            /\ TypeTab[hist[i].typ].Fields[k].Name
                 \notin DOMAIN hist[i].after[hist[i].typ].Props

\* The kinds without representation: callable, channel, open interface, raw
\* memory handle.
UnrepresentableKinds == {"Func", "Chan", "Interface", "UnsafePointer"}

\* The type is of such a kind, or an array, slice, map or pointer whose
\* element type ultimately is.
RECURSIVE Unrepresentable(_)
Unrepresentable(typ) ==
  \/ Kind(typ) \in UnrepresentableKinds
  \/ Kind(typ) \in {"Array", "Slice", "Map", "Ptr"} /\ Unrepresentable(Elem(typ))

\* Field k of typ is dropped: it is not visible or its type cannot be
\* represented.
Dropped(typ, k) ==
  TypeTab[typ].Fields[k].PkgPath # "" \/ Unrepresentable(TypeTab[typ].Fields[k].Type)

\* A record type with dropped fields, no embedded ones and no encoder, so
\* that a call for it decomposes it.
RecordWithDropped(typ) ==
  /\ Kind(typ) = "Struct"
  /\ TypeTab[typ].Json = "none"
  /\ TypeTab[typ].Text = "none"
  /\ \E k \in 1..Len(TypeTab[typ].Fields) : Dropped(typ, k)
  /\ \A k \in 1..Len(TypeTab[typ].Fields) : ~TypeTab[typ].Fields[k].Anonymous

\* The property names of the fields of typ that are not dropped.
KeptNames(typ) ==
  {IF jsonName(TypeTab[typ].Fields[k]) # "" THEN jsonName(TypeTab[typ].Fields[k])
   ELSE TypeTab[typ].Fields[k].Name :
     k \in {n \in 1..Len(TypeTab[typ].Fields) : ~Dropped(typ, n)}}

\* Every field of typ that is not dropped has a primitive type without
\* encoder, whose schema cannot fail.
RestIsPrimitive(typ) ==
  \A k \in 1..Len(TypeTab[typ].Fields) :
    Dropped(typ, k) \/
      /\ Kind(TypeTab[typ].Fields[k].Type) \in ScalarKinds
      /\ TypeTab[TypeTab[typ].Fields[k].Type].Json = "none"
      /\ TypeTab[TypeTab[typ].Fields[k].Type].Text = "none"

\* C18 (unrepresentable types): a call for a callable, channel, open interface
\* or raw memory handle type panics with the unsupported-kind error and
\* returns nothing; a call for a record whose other fields are primitive
\* returns whatever dropped fields it has, and the component of a record has
\* properties only for the fields that are not dropped.
C18_SkippedOnlyWhenNested ==
  \A i \in Calls :
    /\ Kind(hist[i].typ) \in UnrepresentableKinds =>
         /\ ~hist[i].ok
         /\ hist[i].err = ErrUnsupported
         /\ hist[i].ret = Schema0
    /\ (RecordWithDropped(hist[i].typ) /\ RestIsPrimitive(hist[i].typ)) => hist[i].ok
    /\ ( /\ RecordWithDropped(hist[i].typ)
         /\ hist[i].ok
         /\ hist[i].typ \notin DOMAIN hist[i].before )
       => /\ hist[i].typ \in DOMAIN hist[i].after
          /\ DOMAIN hist[i].after[hist[i].typ].Props = KeptNames(hist[i].typ)

\* A record with a callable field, a slice of callables, a map to callables,
\* a pointer to a callable and a non-visible field was asked for and returned,
\* and a call for the callable type itself panicked.
C18_Witness ==
  /\ \E i \in Calls :
       /\ RecordWithDropped(hist[i].typ)
       /\ hist[i].ok
       /\ hist[i].typ \in DOMAIN hist[i].after
       /\ \A K \in {"Func", "Slice", "Map", "Ptr"} :
            \E k \in 1..Len(TypeTab[hist[i].typ].Fields) :
              /\ Kind(TypeTab[hist[i].typ].Fields[k].Type) = K
              /\ Unrepresentable(TypeTab[hist[i].typ].Fields[k].Type)
       /\ \E k \in 1..Len(TypeTab[hist[i].typ].Fields) :
            TypeTab[hist[i].typ].Fields[k].PkgPath # ""
       /\ DOMAIN hist[i].after[hist[i].typ].Props # {}
  /\ \E j \in Calls :
       /\ Kind(hist[j].typ) = "Func"
       /\ hist[j].err = ErrUnsupported

\* The format expected for each type whose encoder prints a string: time.Time
\* prints 0001-01-01T00:00:00Z, Date 0001-01-01, Clock 00:00:00, ClockT
\* T00:00:00, Uuid and NullUuid 32 hex digits, Guid the hyphenated spelling,
\* Dur PT0S; Ids prints nothing, NullStr a blank, BadDate 0001-13-01, BadUuid
\* 32 characters that are not all hex digits, DurOdd PT2S.
ExpectedFormat ==
  [typ \in {"time.Time", "oas.Date", "oas.Clock", "oas.ClockT", "oas.Uuid", "oas.NullUuid",
            "oas.Guid", "oas.Dur", "oas.Ids", "oas.NullStr", "oas.BadDate", "oas.BadUuid",
            "oas.DurOdd"} |->
     CASE typ = "time.Time" -> "date-time"
       [] typ = "oas.Date" -> "date"
       [] typ \in {"oas.Clock", "oas.ClockT"} -> "time"
       [] typ \in {"oas.Uuid", "oas.NullUuid", "oas.Guid"} -> "uuid"
       [] typ = "oas.Dur" -> "duration"
       [] OTHER -> ""]

\* C19 (format sniffing): a call for a type whose encoder prints a string
\* returns an inline schema that is classified string, with null only if the
\* probe also saw null, and whose format is the one the printed string
\* matches: date-time, date, time in either spelling, uuid in either spelling,
\* duration if listed, and none otherwise.
C19_FormatSniffing ==
  \A i \in Calls :
    hist[i].typ \in DOMAIN ExpectedFormat =>
      /\ hist[i].ok
      /\ hist[i].ret.Ref = ""
      /\ hist[i].ret.Type \in {<<"string">>, <<"string", "null">>}
      /\ hist[i].ret.Format = ExpectedFormat[hist[i].typ]
      /\ hist[i].after = hist[i].before

\* A type that prints 32 hex digits got the format uuid, and a type that
\* prints 32 characters that are not all hex digits got no format.
C19_Witness ==
  \E i \in Calls : \E j \in Calls :
    /\ hist[i].typ \in DOMAIN ExpectedFormat
    /\ hist[j].typ \in DOMAIN ExpectedFormat
    /\ hist[i].ok /\ hist[j].ok
    /\ Len(TypeTab[hist[i].typ].TextZero.out) = 32
    /\ Len(TypeTab[hist[j].typ].TextZero.out) = 32
    /\ hist[i].ret.Type = <<"string">>
    /\ hist[i].ret.Format = "uuid"
    /\ hist[j].ret.Type = <<"string">>
    /\ hist[j].ret.Format = ""

\* The JSON encoder of typ, a method with value receiver, prints the literal
\* null for the zero value, which is what the probe asks it for first.
ProbeSeesNull(typ) ==
  /\ typ # NilType
  /\ TypeTab[typ].Json = "val"
  /\ ~TypeTab[typ].JsonZero.err
  /\ TrimSpace(TypeTab[typ].JsonZero.out) = <<"n", "u", "l", "l">>

\* C20 (observed null means nullable): when the probe of a type sees null, the
\* schema produced for the type, the inline schema returned or the component
\* registered under its name, has null in its type set, whether the probe of
\* the witness completed the type set or the structural fallback did.
C20_ObservedNullMeansNullable ==
  \A i \in Calls :
    ( /\ hist[i].ok
      /\ ProbeSeesNull(hist[i].typ)
      /\ hist[i].typ \notin DOMAIN hist[i].before )
    => IF hist[i].ret.Ref = ""
       THEN TypeHas(hist[i].ret, "null")
       ELSE /\ hist[i].typ \in DOMAIN hist[i].after
            /\ TypeHas(hist[i].after[hist[i].typ], "null")

\* The pointer type has encoding methods: those of its referent, whatever
\* their receiver.
PointerWithEncoder(typ) ==
  /\ typ # NilType
  /\ Kind(typ) = "Ptr"
  /\ Kind(Elem(typ)) # "Ptr"
  /\ TypeTab[Elem(typ)].Json # "none" \/ TypeTab[Elem(typ)].Text # "none"

\* The classification of the output printed by the encoders of the pointer
\* types asked for: NullStr and NonNullStr print a quoted string, IntStr and
\* IntStrPtr print -123, time.Time prints a quoted instant.
ExpectedPointerKind ==
  [typ \in {"*oas.NullStr", "*oas.NonNullStr", "*oas.IntStr", "*oas.IntStrPtr", "*time.Time"} |->
     IF typ \in {"*oas.IntStr", "*oas.IntStrPtr"} THEN "number" ELSE "string"]

\* The schema is nullable: by its type set, by a null member of its oneOf, or
\* by the body it refers to in reg.
NullableIn(sch, reg) ==
  IF sch.Ref # ""
  THEN \E n \in DOMAIN reg : sch = RefTo(n) /\ TypeHas(reg[n], "null")
  ELSE \/ TypeHas(sch, "null")
       \/ \E k \in 1..Len(sch.OneOf) : TypeHas(sch.OneOf[k], "null")

\* C21 (pointers with an encoder are nullable): a call for a pointer type with
\* encoding methods returns a nullable schema, and where the encoder's output
\* classifies as K it returns the inline schema titled with the pointer type
\* whose type set is K followed by null, leaving the registry as it was.
C21_EncoderPointerNullable ==
  \A i \in Calls :
    (hist[i].ok /\ PointerWithEncoder(hist[i].typ)) =>
      /\ NullableIn(hist[i].ret, hist[i].after)
      /\ hist[i].typ \in DOMAIN ExpectedPointerKind =>
           /\ hist[i].ret.Ref = ""
           /\ hist[i].ret.Title = hist[i].typ
           /\ hist[i].ret.Type = <<ExpectedPointerKind[hist[i].typ], "null">>
           /\ hist[i].ret.OneOf = <<>>
           /\ hist[i].after = hist[i].before

\* A pointer to a type whose encoder, defined on the pointer, never prints
\* null was asked for and came back as a nullable string.
C21_Witness ==
  \E i \in Calls :
    /\ hist[i].ok
    /\ PointerWithEncoder(hist[i].typ)
    /\ TypeTab[Elem(hist[i].typ)].Json = "ptr"
    /\ TypeTab[Elem(hist[i].typ)].JsonZero.out = <<"\"", "\"">>
    /\ hist[i].ret.Type = <<"string", "null">>

\* C22 (a failed synthesis leaves the value alone): whenever nonZero has
\* returned false, the value it was given is the zero value of its type.
C22_FailureLeavesZero ==
  (wit.pc = "done" /\ ~wit.ok) => wit.val = Zero(wit.typ)

\* The method slot of the path in the map: nil when the path is not there.
Slot(self, path, meth) == IF path \in DOMAIN self THEN self[path][meth] ELSE <<>>

\* C23 (route registration): a call of Route with a well-known method leaves
\* at the path a slot for the method that holds the op as it was passed, and
\* every other slot of every path as it was; a call with another method
\* panics and adds no path.
C23_RouteStoresOp ==
  \A i \in 1..Len(hist) :
    IF hist[i].meth \in Methods
    THEN /\ hist[i].ok
         /\ Slot(hist[i].after, hist[i].path, hist[i].meth) = <<hist[i].op>>
         /\ DOMAIN hist[i].after = DOMAIN hist[i].before \cup {hist[i].path}
         /\ \A p \in DOMAIN hist[i].after : \A m \in Methods :
              (p # hist[i].path \/ m # hist[i].meth) =>
                Slot(hist[i].after, p, m) = Slot(hist[i].before, p, m)
    ELSE /\ ~hist[i].ok
         /\ hist[i].after = hist[i].before

\* The kinds whose methods register a component: schemaArray, schemaSlice,
\* schemaMap, schemaStruct.
Composite(typ) == typ # NilType /\ Kind(typ) \in {"Array", "Slice", "Map", "Struct"}

\* Frame i of goroutine p is a composite type under decomposition: the
\* dispatcher is visiting one of its sub-types in the frames above.
Decomposing(p, i) ==
  /\ i < Len(stack[p])
  /\ stack[p][i].fn = "any"
  /\ Composite(stack[p][i].typ)

\* While a sub-type of a composite type is visited, the empty placeholder is
\* in the registry under the type's name, the body still carries that name as
\* its title, and the schema of the caller is not yet a reference.
C24_ReservedWhileVisiting ==
  \A p \in Procs : \A i \in 1..Len(stack[p]) :
    Decomposing(p, i) =>
      /\ typeName(stack[p][i].typ) \in DOMAIN schemas
      /\ schemas[typeName(stack[p][i].typ)] = Schema0
      /\ ValidTitle(stack[p][i].sch) = typeName(stack[p][i].typ)
      /\ stack[p][i].sch.Ref = ""

\* A step that adds a key to the registry is the first step of the method of
\* a composite type: the key is the type's name, the entry is empty, and no
\* sub-type has been visited before it.
C24_KeyAddedByReserve ==
  \A k \in (DOMAIN schemas') \ (DOMAIN schemas) :
    \E p \in Procs :
      /\ Running(p, "any", "reserve")
      /\ Composite(Top(p).typ)
      /\ typeName(Top(p).typ) = k
      /\ schemas'[k] = Schema0
      /\ Len(stack'[p]) >= Len(stack[p])
      /\ stack'[p][Len(stack[p])].pc \in Armed

\* The body of a composite type on the normal path holds what the visits of
\* its sub-types returned.
VisitsDone(typ, body) ==
  /\ Kind(typ) \in {"Array", "Slice"} => body.Items # <<>>
  /\ (Kind(typ) = "Map" /\ ~isTypeSkippable(Elem(typ))) => body.AddProps # <<>>

\* A step that writes an existing entry of the registry is the fill of the
\* composite type on top of the stack: the entry was the placeholder, the key
\* is the one reserved, the body is the one the method built, the activation
\* ends with the step, so that no sub-type is visited after it, and what the
\* caller receives is the reference.
C24_FillEndsDecomposition ==
  \A k \in DOMAIN schemas :
    schemas'[k] # schemas[k] =>
      \E p \in Procs :
        /\ stack[p] # <<>>
        /\ Top(p).fn = "any"
        /\ Top(p).pc \in Armed
        /\ Composite(Top(p).typ)
        /\ typeName(Top(p).typ) = k
        /\ schemas[k] = Schema0
        /\ DOMAIN schemas' = DOMAIN schemas
        /\ schemas'[k] = Top(p).sch
        /\ Len(stack'[p]) = Len(stack[p]) - 1
        /\ status[p] = "running" =>
             /\ Top(p).pc = "fill"
             /\ VisitsDone(Top(p).typ, schemas'[k])
             /\ Handed(p) = RefTo(k)
        /\ (Top(p).byRef /\ stack'[p] # <<>>) =>
             stack'[p][Len(stack'[p])].sch = RefTo(k)

\* C24 (reserve before recursing): for an array, slice, map or record type
\* that reaches its structural method, the empty placeholder is put under the
\* type's name before any sub-type is visited and stays there while they are;
\* the fill comes after the visits, under the reserved key, and ends the
\* activation; the caller's schema becomes the reference in the fill and not
\* before.
C24_ReserveBeforeRecurse ==
  /\ []C24_ReservedWhileVisiting
  /\ [][C24_KeyAddedByReserve /\ C24_FillEndsDecomposition]_vars

\* A record that refers to itself is about to be filled: the visit of its
\* own pointer field is over and the placeholder is still in the registry.
C24_Witness ==
  /\ Running(1, "any", "fill")
  /\ Top(1).typ = "oas.Node"
  /\ schemas["oas.Node"] = Schema0
  /\ "next" \in DOMAIN Top(1).sch.Props

\* typ is a pointer to a slice or map type that is a component of reg.
PointerToNullableComponent(typ, reg) ==
  /\ typ # NilType
  /\ Kind(typ) = "Ptr"
  /\ Kind(Elem(typ)) \in {"Slice", "Map"}
  /\ Elem(typ) \in DOMAIN reg

\* The schemas that stand, in the body stored for the composite type n, where
\* a sub-type of type typ occurs.
OccurrencesIn(reg, n, typ) ==
  {reg[n].Items[1] : k \in {x \in {1} : /\ Kind(n) \in {"Array", "Slice"}
                                        /\ Elem(n) = typ
                                        /\ reg[n].Items # <<>>}}
  \cup
  {reg[n].AddProps[1] : k \in {x \in {1} : /\ Kind(n) = "Map"
                                           /\ Elem(n) = typ
                                           /\ reg[n].AddProps # <<>>}}
  \cup
  {reg[n].Props[jsonName(TypeTab[n].Fields[k])] :
     k \in {x \in 1..Len(TypeTab[n].Fields) :
              /\ Kind(n) = "Struct"
              /\ TypeTab[n].Fields[x].Type = typ
              /\ jsonName(TypeTab[n].Fields[x]) \in DOMAIN reg[n].Props}}

\* C25 (pointer to a nullable component): after a call that returned, a
\* pointer to a slice or map type that is a component is, wherever it occurs,
\* the bare reference to the component: as the schema returned for the pointer
\* and as the items, additional properties or property of every registry
\* body, the body of the slice or map type itself included.
C25_PointerToNullableIsBareRef ==
  \A i \in Calls :
    hist[i].ok =>
      \A typ \in DOMAIN TypeTab :
        PointerToNullableComponent(typ, hist[i].after) =>
          /\ hist[i].typ = typ => hist[i].ret = RefTo(Elem(typ))
          /\ \A n \in DOMAIN hist[i].after :
               \A occ \in OccurrencesIn(hist[i].after, n, typ) : occ = RefTo(Elem(typ))

\* A map type without encoding methods whose value type is unrepresentable.
MapOfUnrepresentable(typ) ==
  /\ typ # NilType
  /\ Kind(typ) = "Map"
  /\ TypeTab[typ].Json = "none"
  /\ TypeTab[typ].Text = "none"
  /\ Unrepresentable(Elem(typ))

\* The activation of such a map type calls nothing: no frame is above it.
KeyNotVisited ==
  \A p \in Procs : \A i \in 1..Len(stack[p]) :
    (stack[p][i].fn = "any" /\ MapOfUnrepresentable(stack[p][i].typ)) => i = Len(stack[p])

\* C26 (map of unrepresentable values): a call for a map type whose value type
\* is unrepresentable returns, whatever the key type; the key type is not
\* visited, so it is neither validated nor registered, nor is the value type;
\* the only entry added is the map's, a nullable object without
\* additional-properties schema.
C26_MapOfUnrepresentable ==
  /\ KeyNotVisited
  /\ \A i \in Calls :
       (MapOfUnrepresentable(hist[i].typ) /\ hist[i].typ \notin DOMAIN hist[i].before) =>
         /\ hist[i].ok
         /\ hist[i].ret = RefTo(hist[i].typ)
         /\ DOMAIN hist[i].after = DOMAIN hist[i].before \cup {hist[i].typ}
         /\ \A n \in DOMAIN hist[i].before : hist[i].after[n] = hist[i].before[n]
         /\ hist[i].after[hist[i].typ] =
              [Schema0 EXCEPT !.Title = hist[i].typ, !.Type = <<"object", "null">>]

\* A map from a record type to channels was asked for on an empty document
\* and returned, and the record type is no component.
C26_Witness ==
  \E i \in Calls :
    /\ hist[i].ok
    /\ hist[i].typ = "map[oas.Unit]chan int"
    /\ hist[i].before = <<>>
    /\ "oas.Unit" \notin DOMAIN hist[i].after

\* nonZero has returned for a value of a struct type with fields.
StructDone == wit.pc = "done" /\ Kind(wit.typ) = "Struct" /\ ~sizeZero(wit.typ)

FieldsOf(typ) == TypeTab[typ].Fields

\* The fields of typ that can be made non-zero, and the visible ones of them.
Makeable(typ) ==
  {k \in 1..Len(FieldsOf(typ)) : nonZero(FieldsOf(typ)[k].Type, StackCap) = "true"}

MakeableVisible(typ) == {k \in Makeable(typ) : FieldsOf(typ)[k].PkgPath = ""}

Least(set) == CHOOSE k \in set : \A j \in set : k <= j

\* The first field, in declaration order, that can be made non-zero.
FirstMakeable(typ) == IF Makeable(typ) = {} THEN 0 ELSE Least(Makeable(typ))

\* The field nonZeroStruct makes: the first visible one that can be made,
\* else the first one that can be made.
FieldMade(typ) ==
  IF MakeableVisible(typ) # {} THEN Least(MakeableVisible(typ)) ELSE FirstMakeable(typ)

\* Field k was handed to nonZero in place and could not be made: it is
\* visible and comes before the visible field that was made, if any was.
TriedInPlace(typ, k) ==
  /\ FieldsOf(typ)[k].PkgPath = ""
  /\ k \notin Makeable(typ)
  /\ MakeableVisible(typ) # {} => k < Least(MakeableVisible(typ))

WellShaped(types) ==
  /\ \A i \in 1..Len(types) : \A j \in 1..Len(types) : types[i] = types[j] => i = j
  /\ \A i \in 1..Len(types) : types[i] = "null" => i = Len(types)

\* The type set of the schema and of every schema inside it.
RECURSIVE ShapedDeep(_)
ShapedDeep(sch) ==
  /\ WellShaped(sch.Type)
  /\ \A i \in 1..Len(sch.OneOf) : ShapedDeep(sch.OneOf[i])
  /\ \A i \in 1..Len(sch.Items) : ShapedDeep(sch.Items[i])
  /\ \A i \in 1..Len(sch.AddProps) : ShapedDeep(sch.AddProps[i])
  /\ \A n \in DOMAIN sch.Props : ShapedDeep(sch.Props[n])

\* Every schema the traversal holds: the registry, the schemas under
\* construction, the schema in transit, the schemas returned.
TraversalShaped ==
  /\ \A n \in DOMAIN schemas : ShapedDeep(schemas[n])
  /\ \A p \in Procs : ShapedDeep(ret[p])
  /\ \A p \in Procs : \A i \in 1..Len(stack[p]) : ShapedDeep(stack[p][i].sch)
  /\ \A i \in Calls : ShapedDeep(hist[i].ret)

\* The last call on the caller's schema added a tag that was there already.
AddedAgain ==
  /\ built.op = "TypeAdd"
  /\ \E i \in 1..Len(built.before.Type) : built.before.Type[i] = built.arg

\* C28 (shape of type sets): the type sets the traversal builds, and the type
\* set after any sequence of TypeAdd and Nullable calls on a zero Schema,
\* hold no tag twice and hold null, if at all, last; TypeAdd of a tag that is
\* present leaves the schema as it was.
C28_TypeSetShape ==
  /\ TraversalShaped
  /\ ShapedDeep(built.sch)
  /\ AddedAgain => built.sch = built.before

\* Null was added first and a tag after it, which went in front of null; and
\* the tag was then added a second time.
C28_Witness ==
  /\ built.n = 3
  /\ AddedAgain
  /\ built.arg = "string"
  /\ built.sch.Type = <<"string", "null">>

\* The calls for b and then for a, made on an empty document, ended as first
\* and second without panic, and left the registry and returned the schemas
\* that the calls for a and then for b, hist[1] and hist[2], did.
SameAsSwapped(first, second) ==
  (first.err = "" /\ second.err = "") =>
    /\ second.reg = hist[2].after
    /\ second.sch = hist[1].ret
    /\ first.sch = hist[2].ret

SwappedAfter(first) == SameAsSwapped(first, seqAny(first.reg, Schema0, hist[1].typ, 1))

\* C29 (order independence): two types asked for on an empty document, both
\* calls returning, leave the registry and get the schemas that they leave
\* and get when asked for in the other order.
C29_OrderIndependent ==
  (Len(hist) = 2 /\ hist[1].ok /\ hist[2].ok /\ hist[1].typ # hist[2].typ)
    => SwappedAfter(seqAny(<<>>, Schema0, hist[2].typ, 1))

\* Every reference in the schema, and in the schemas inside it, names a key
\* of reg.
RECURSIVE RefsClosed(_, _)
RefsClosed(sch, reg) ==
  /\ sch.Ref # "" => \E n \in DOMAIN reg : sch.Ref = "#/components/schemas/" \o n
  /\ \A i \in 1..Len(sch.OneOf) : RefsClosed(sch.OneOf[i], reg)
  /\ \A i \in 1..Len(sch.Items) : RefsClosed(sch.Items[i], reg)
  /\ \A i \in 1..Len(sch.AddProps) : RefsClosed(sch.AddProps[i], reg)
  /\ \A n \in DOMAIN sch.Props : RefsClosed(sch.Props[n], reg)

\* C30 (the registry is closed after a call that returned): every reference
\* in the schema returned and in every body of the registry names a key of
\* the registry, and every entry is a body titled with its key, none the
\* empty placeholder.
C30_RegistryClosed ==
  \A i \in Calls :
    hist[i].ok =>
      /\ RefsClosed(hist[i].ret, hist[i].after)
      /\ \A n \in DOMAIN hist[i].after :
           /\ hist[i].after[n] # Schema0
           /\ hist[i].after[n].Title = n
           /\ RefsClosed(hist[i].after[n], hist[i].after)

\* A record that refers to itself was asked for after a call that panicked
\* and left a body behind: the call returned a reference, and the registry
\* holds the record, whose property refers back to it, and the body left.
C30_Witness ==
  /\ Len(hist) = 2
  /\ ~hist[1].ok
  /\ hist[1].after # <<>>
  /\ hist[2].ok
  /\ hist[2].typ = "oas.Node"
  /\ hist[2].ret = RefTo("oas.Node")
  /\ hist[2].after["oas.Node"].Props["next"].OneOf[1] = RefTo("oas.Node")

====
